---- MODULE Spec2Model ----
(***************************************************************************)
(* Localization resolution and caching subsystem of                        *)
(* auth0-international-email.                                              *)
(*                                                                         *)
(*   Spec         CacheService (src/core/services/CacheService.ts): the    *)
(*                memory map, its size counter, the disk tier and the      *)
(*                periodic sweep, driven by sequential callers.            *)
(*   SpecResolve  the strict resolver (scripts/localizeMessage.ts) and     *)
(*                the lenient one (generators/LiquidGenerator.ts).         *)
(*                                                                         *)
(* Strings are sequences of one-character strings, so that concatenation,  *)
(* joining, key sanitisation and JSON quoting are computed, not assumed.   *)
(***************************************************************************)
EXTENDS Integers, Sequences, FiniteSets, TLC

VARIABLES
  strategy,           \* options.strategy
  now,                \* the clock Date.now() reads, in ms
  memoryCache,        \* Map<string, CacheEntry>, in insertion order
  currentMemorySize,  \* the cumulative size counter
  disk,               \* cache directory: file name -> file content
  sweepAt,            \* clock reading of the last sweep, -1 before the first
  hung,               \* a handler is spinning in a loop that cannot end
  ops, ticks, faults, \* counters that bound the exploration
  last,               \* the last handler that ran: its call and its outcome
  lastAdded,          \* size of the entry most recently put into the map
  languages,          \* config.json: the ordered language list
  resources,          \* languages/<code>.json: code -> key -> value
  i18nCatalogs,       \* i18nContext.catalogs: Map<code, catalog>, in order
  resolved,           \* the last resolver call and its outcome
  languageFiles,      \* languagesPath: language code -> <code>.json
  loaderCatalogs,     \* I18nService.catalogs of each loader instance
  loaded,             \* the last I18nService call and its outcome
  edits,              \* counter that bounds the changes to the resources
  buildConfig,        \* config.languages of a build: code and enabled flag
  build,              \* BuildCommand.execute: where it is, what it has
  configFile,         \* the configuration file at configPath
  configCache,        \* ConfigLoader.configCache, the entry of configPath
  configLoaded,       \* the last ConfigLoader call and its outcome
  configEdits,        \* counter that bounds the changes to the file
  lastSet,            \* history: the latest set of each key, time and ttl
  inFlight,           \* a get that is waiting for its disk read
  removed,            \* history: keys deleted and not set again since
  catalogEntries,     \* the values of a catalog's entries, each with its number
  completeness,       \* the last calculateCompleteness and its result
  i18nResolved,       \* the last I18nService.resolve and its outcome
  maxWorkers,         \* WorkerPool.maxWorkers
  workers,            \* WorkerPool.workers: each busy or not
  taskQueue,          \* WorkerPool.taskQueue: the tasks that wait
  tasks,              \* each task, named by its place among the submissions
  immediates,         \* the setImmediate callbacks that have not run yet
  started,            \* history: the tasks in the order they were started
  template,           \* templates/<name>.html: the text, piece by piece
  rendered            \* the last generation step and its outcome

cacheVars == <<strategy, now, memoryCache, currentMemorySize, disk, sweepAt,
               hung, ops, ticks, faults, last, lastAdded>>
resolveVars == <<languages, resources, i18nCatalogs, resolved>>
loaderVars == <<languageFiles, loaderCatalogs, loaded, edits>>
templateVars == <<template, rendered>>
buildVars == <<buildConfig, build>>
\* what the cache, the resolvers and the loaders leave alone
configVars == <<configFile, configCache, configLoaded, configEdits>>
historyVars == <<lastSet, inFlight, removed>>
\* what the cache, the loaders and the pipeline leave alone
measureVars == <<catalogEntries, completeness, i18nResolved>>
poolVars == <<maxWorkers, workers, taskQueue, tasks, immediates, started>>
utilityVars == <<measureVars, poolVars>>
pipelineVars == <<templateVars, buildVars, configVars, historyVars,
                 utilityVars>>
notTemplateVars == <<cacheVars, resolveVars, loaderVars, buildVars,
                     configVars, historyVars, utilityVars>>
besideBuildVars == <<resolveVars, templateVars, configVars, historyVars,
                    utilityVars>>
notConfigVars == <<cacheVars, resolveVars, loaderVars, templateVars,
                   buildVars, historyVars, utilityVars>>
vars == <<strategy, now, memoryCache, currentMemorySize, disk, sweepAt,
          hung, ops, ticks, faults, last, lastAdded,
          languages, resources, i18nCatalogs, resolved,
          languageFiles, loaderCatalogs, loaded, edits,
          template, rendered, buildConfig, build,
          configFile, configCache, configLoaded, configEdits, lastSet,
          inFlight, removed, catalogEntries, completeness,
          i18nResolved, maxWorkers, workers, taskQueue, tasks, immediates,
          started>>

-----------------------------------------------------------------------------
(* Bounds of the exploration *)

MaxOps == 3
MaxTicks == 2
MaxFaults == 1
MaxEdits == 1
MaxLoaderTicks == 1
\* options.maxSize * 1024 * 1024, the capacity in bytes (maxSize is in MB
\* and may be fractional)
MaxSizeBytes == 10

(* Program constants *)

MsPerSecond == 1000
BytesPerChar == 2
DefaultTtl == 3600
SweepIntervalMs == 300000

-----------------------------------------------------------------------------
(* Inputs *)

Keys == { <<>>, <<"a", ".", "b">>, <<"a", "_", "b">> }

\* JSON-serializable values: strings; the second needs escaping and is
\* larger than the whole capacity
Data == { <<>>, <<"a", "\"", "b", "c">> }

\* the optional ttl argument, in seconds
NoTtl == [given |-> FALSE, value |-> 0]
Ttl(n) == [given |-> TRUE, value |-> n]
TTLs == { Ttl(1), NoTtl }

\* the clock moves to just before and to exactly one second later
TickSteps == { 999, 1000 }

Strategies == { "memory", "disk", "hybrid" }

-----------------------------------------------------------------------------
(* JSON *)

RECURSIVE EscapeChars(_)
EscapeChars(s) ==
  IF s = <<>> THEN <<>>
  ELSE (IF Head(s) \in {"\"", "\\"} THEN <<"\\", Head(s)>> ELSE <<Head(s)>>)
       \o EscapeChars(Tail(s))

RECURSIVE UnescapeChars(_)
UnescapeChars(s) ==
  IF s = <<>> THEN <<>>
  ELSE IF Head(s) = "\\" /\ Len(s) >= 2
       THEN <<s[2]>> \o UnescapeChars(Tail(Tail(s)))
       ELSE <<Head(s)>> \o UnescapeChars(Tail(s))

\* A value that is not a string is the pair of ObjectMark and a record of
\* its fields; its JSON text is the pair of an opening brace and the fields
\* as JSON keeps them.
ObjectMark == "[object Object]"

IsObject(data) == data # <<>> /\ Head(data) = ObjectMark

\* a Map among the fields has no enumerable properties: JSON.stringify
\* writes it as {} and JSON.parse gives back an empty plain object
JsonFields(fields) ==
  [f \in DOMAIN fields |->
     IF f = "entries" THEN [kind |-> "Object", pairs |-> <<>>]
     ELSE fields[f]]

JsonStringify(data) ==
  IF IsObject(data) THEN <<"{", JsonFields(data[2])>>
  ELSE <<"\"">> \o EscapeChars(data) \o <<"\"">>

JsonParse(text) ==
  IF Head(text) = "{" THEN <<ObjectMark, text[2]>>
  ELSE UnescapeChars(SubSeq(text, 2, Len(text) - 1))

calculateSize(data) == Len(JsonStringify(data)) * BytesPerChar

-----------------------------------------------------------------------------
(* The memory map *)

IndexOf(mem, key) ==
  IF \E i \in 1..Len(mem) : mem[i].key = key
  THEN CHOOSE i \in 1..Len(mem) : mem[i].key = key
  ELSE 0

RemoveAt(mem, i) == SubSeq(mem, 1, i - 1) \o SubSeq(mem, i + 1, Len(mem))

\* a Map.set that would leave an existing key's entry as it is
MapSetIfAbsent(mem, e) ==
  IF IndexOf(mem, e.key) = 0 THEN Append(mem, e) ELSE mem

\* Map.set: an existing key keeps its place, a new key goes last
MapSet(mem, e) ==
  IF IndexOf(mem, e.key) = 0 THEN Append(mem, e)
  ELSE [mem EXCEPT ![IndexOf(mem, e.key)] = e]

RECURSIVE SumSizes(_)
SumSizes(mem) == IF mem = <<>> THEN 0 ELSE Head(mem).size + SumSizes(Tail(mem))

Expired(e, t) == (t - e.timestamp) >= (e.ttl * MsPerSecond)

\* a freshness test that would still accept an entry at its expiry instant
FreshInclusive(e, t) == (t - e.timestamp) <= (e.ttl * MsPerSecond)

Fresh(e, t) == (t - e.timestamp) < (e.ttl * MsPerSecond)

\* the scan of evictLeastRecentlyUsed: the first entry, in map order, with
\* the least timestamp among those strictly below the clock reading t
RECURSIVE ScanOldest(_, _, _, _)
ScanOldest(mem, i, oldestIdx, oldestTimestamp) ==
  IF i > Len(mem) THEN oldestIdx
  ELSE IF mem[i].timestamp < oldestTimestamp
       THEN ScanOldest(mem, i + 1, i, mem[i].timestamp)
       ELSE ScanOldest(mem, i + 1, oldestIdx, oldestTimestamp)

\* a scan that would keep the greatest timestamp below t instead
NewestIndex(mem, t) ==
  LET c == { i \in 1..Len(mem) : mem[i].timestamp < t } IN
  IF c = {} THEN 0
  ELSE CHOOSE i \in c : \A j \in c : mem[j].timestamp <= mem[i].timestamp

OldestIndex(mem, t) == ScanOldest(mem, 1, 0, t)

\* `if (oldestKey)`: the empty string is falsy
Truthy(key) == key # <<>>

\* a setMemoryEntry that would never evict
EvictNothing(mem, size, dataSize, t, evicted) ==
  [mem |-> mem, size |-> size, t |-> t, evicted |-> evicted,
   diverged |-> FALSE]

\* the while loop of setMemoryEntry around evictLeastRecentlyUsed.  When no
\* entry is older than the clock reading the iteration removes nothing and is
\* repeated until the clock has moved on; when the oldest entry has a falsy
\* key no iteration ever removes anything.
RECURSIVE EvictLoop(_, _, _, _, _)
EvictLoop(mem, size, dataSize, t, evicted) ==
  IF size + dataSize > MaxSizeBytes /\ Len(mem) > 0
  THEN LET i == OldestIndex(mem, t) IN
       IF i = 0
       THEN EvictLoop(mem, size, dataSize, t + 1, evicted)
       ELSE IF ~Truthy(mem[i].key)
       THEN [mem |-> mem, size |-> size, t |-> t, evicted |-> evicted,
             diverged |-> TRUE]
       ELSE EvictLoop(RemoveAt(mem, i), size - mem[i].size, dataSize, t,
                      Append(evicted, mem[i]))
  ELSE [mem |-> mem, size |-> size, t |-> t, evicted |-> evicted,
        diverged |-> FALSE]

NewEntry(key, data, ttl, t) ==
  [key |-> key, data |-> data, timestamp |-> t, ttl |-> ttl,
   size |-> calculateSize(data)]

\* the counter after the insertion of an entry of dataSize bytes
AddSize(size, dataSize) == size + dataSize

setMemoryEntry(mem, size, key, data, ttl, t) ==
  LET r == EvictLoop(mem, size, calculateSize(data), t, <<>>) IN
  IF r.diverged THEN r
  ELSE [mem |-> MapSet(r.mem, NewEntry(key, data, ttl, r.t)),
        size |-> AddSize(r.size, calculateSize(data)),
        t |-> r.t, evicted |-> r.evicted, diverged |-> FALSE]

\* cleanup: every entry expired at the clock reading t goes
RECURSIVE Sweep(_, _)
Sweep(mem, t) ==
  IF mem = <<>> THEN <<>>
  ELSE IF Expired(Head(mem), t) THEN Sweep(Tail(mem), t)
       ELSE <<Head(mem)>> \o Sweep(Tail(mem), t)

-----------------------------------------------------------------------------
(* The disk tier *)

SafeChars == {"a", "b", "c", "e", "f", "g", "l", "n", "r", "u", "-", "_"}

RECURSIVE SafeKey(_)
SafeKey(key) ==
  IF key = <<>> THEN <<>>
  ELSE <<IF Head(key) \in SafeChars THEN Head(key) ELSE "_">>
       \o SafeKey(Tail(key))

getDiskPath(key) == SafeKey(key) \o <<".", "j", "s", "o", "n">>

Files == { getDiskPath(k) : k \in Keys }

NoFile == [exists |-> FALSE]

\* JSON.stringify(entry) as written by setDiskEntry
DiskFile(data, ttl, t) ==
  [exists |-> TRUE, data |-> JsonStringify(data), timestamp |-> t,
   ttl |-> ttl, size |-> calculateSize(data)]

\* getDiskEntry: null when the file is absent or unreadable
getDiskEntry(dsk, key, readOk) ==
  LET f == dsk[getDiskPath(key)] IN
  IF f.exists /\ readOk
  THEN [found |-> TRUE, data |-> JsonParse(f.data), timestamp |-> f.timestamp,
        ttl |-> f.ttl, size |-> f.size]
  ELSE [found |-> FALSE]

-----------------------------------------------------------------------------
(* Handlers of CacheService.  An action binds the outcome of the handler   *)
(* it models with \E over a one-element set, so that the outcome is        *)
(* computed once.                                                          *)

\* ttl ?? this.options.ttl
ActualTtl(ttl) == IF ttl.given THEN ttl.value ELSE DefaultTtl

NotFound == [found |-> FALSE, data |-> <<>>]
Found(data) == [found |-> TRUE, data |-> data]

\* what a handler leaves in `last`
Call(op, key, data, ttl) ==
  [op |-> op, key |-> key, data |-> data, ttl |-> ttl, at |-> now,
   completed |-> TRUE, ioOk |-> TRUE, result |-> NotFound,
   evicted |-> <<>>, added |-> FALSE, memHit |-> FALSE,
   memExpired |-> FALSE, afterSet |-> FALSE, afterEvict |-> FALSE,
   diskRead |-> FALSE, threw |-> FALSE, afterClear |-> FALSE]

NoCall == Call("none", <<>>, <<>>, 0)

CanCall == ~hung /\ ops < MaxOps

\* whether the disk operation of a call succeeds
DiskOutcomes == IF strategy # "memory" /\ faults < MaxFaults
                THEN {TRUE, FALSE} ELSE {TRUE}

\* a handler that would let a failure of the disk tier reach its caller
Rethrow(failed) == failed

\* try { ... } catch (error) { this.logger.warn(...) }: the failure is logged
\* and the handler goes on; nothing reaches the caller
TryCatch(failed) == FALSE

\* get goes to the disk tier unless memory answered or the strategy is memory
ReadsDisk(memHit) == strategy # "memory" /\ ~memHit

\* a get that would never copy a disk hit into the map
RepopulatesNever(diskHit) == FALSE

\* `if (this.options.strategy === 'hybrid')` after a disk hit
RepopulatesMemory(diskHit) == diskHit /\ strategy = "hybrid"

\* set: the memory tier first, then the disk tier
cacheSet(mem, size, dsk, key, data, ttl, t, ioOk) ==
  LET actualTtl == ActualTtl(ttl)
      m == IF strategy # "disk"
           THEN setMemoryEntry(mem, size, key, data, actualTtl, t)
           ELSE [mem |-> mem, size |-> size, t |-> t, evicted |-> <<>>,
                 diverged |-> FALSE]
      written == strategy # "memory" /\ ~m.diverged
  IN [mem |-> m.mem, size |-> m.size, t |-> m.t, diverged |-> m.diverged,
      evicted |-> m.evicted, actualTtl |-> actualTtl, written |-> written,
      added |-> (strategy # "disk" /\ ~m.diverged),
      dsk |-> IF written /\ ioOk
              THEN [dsk EXCEPT ![getDiskPath(key)] =
                      DiskFile(data, actualTtl, m.t)]
              ELSE dsk]

Set(key, data, ttl, ioOk) ==
  /\ CanCall
  /\ \E r \in { cacheSet(memoryCache, currentMemorySize, disk, key, data,
                          ttl, now, ioOk) } :
        /\ memoryCache' = r.mem
        /\ currentMemorySize' = r.size
        /\ hung' = r.diverged
        /\ now' = r.t
        /\ disk' = r.dsk
        /\ last' = [Call("set", key, data, r.actualTtl) EXCEPT
                      !.at = r.t, !.completed = ~r.diverged,
                      !.ioOk = (r.written => ioOk), !.evicted = r.evicted,
                      !.threw = TryCatch(r.written /\ ~ioOk),
                      !.added = r.added,
                      !.afterClear = (last.op = "clear" /\ last.ioOk)]
        /\ lastAdded' = IF r.added THEN calculateSize(data) ELSE lastAdded
        /\ faults' = IF r.written /\ ~ioOk THEN faults + 1 ELSE faults
  /\ ops' = ops + 1
  /\ UNCHANGED <<strategy, sweepAt, ticks>>

\* get: the memory tier, then the disk tier, then a miss
cacheGet(mem, size, dsk, key, t, ioOk) ==
  LET i == IF strategy # "disk" THEN IndexOf(mem, key) ELSE 0
      memHit == i > 0 /\ Fresh(mem[i], t)
      \* an expired memory entry is dropped
      mem1 == IF i > 0 /\ ~memHit THEN RemoveAt(mem, i) ELSE mem
      size1 == IF i > 0 /\ ~memHit THEN size - mem[i].size ELSE size
      read == ReadsDisk(memHit)
      d == IF read THEN getDiskEntry(dsk, key, ioOk) ELSE NotFound
      diskHit == d.found /\ Fresh(d, t)
      m == IF RepopulatesMemory(diskHit)
           THEN setMemoryEntry(mem1, size1, key, d.data, d.ttl, t)
           ELSE [mem |-> mem1, size |-> size1, t |-> t,
                 evicted |-> <<>>, diverged |-> FALSE]
      added == RepopulatesMemory(diskHit) /\ ~m.diverged
  IN [mem |-> m.mem, size |-> m.size, t |-> m.t, diverged |-> m.diverged,
      evicted |-> m.evicted, added |-> added, memHit |-> memHit,
      memExpired |-> (i > 0 /\ ~memHit), read |-> read,
      addedSize |-> IF added THEN calculateSize(d.data) ELSE 0,
      result |-> IF memHit THEN Found(mem[i].data)
                 ELSE IF diskHit /\ ~m.diverged THEN Found(d.data)
                 ELSE NotFound]

Get(key, ioOk) ==
  /\ CanCall
  /\ \E r \in { cacheGet(memoryCache, currentMemorySize, disk, key, now,
                          ioOk) } :
        /\ memoryCache' = r.mem
        /\ currentMemorySize' = r.size
        /\ hung' = r.diverged
        /\ now' = r.t
        /\ last' = [Call("get", key, <<>>, 0) EXCEPT
                      !.completed = ~r.diverged,
                      !.ioOk = (r.read => ioOk),
                      !.diskRead = r.read,
                      !.threw = TryCatch(r.read /\ ~ioOk),
                      !.result = r.result,
                      !.evicted = r.evicted, !.added = r.added,
                      !.memHit = r.memHit,
                      !.memExpired = r.memExpired,
                      !.afterSet = (last.op = "set" /\ last.completed
                                    /\ last.key = key),
                      !.afterEvict = (last.op = "set" /\ last.completed
                                      /\ last.key = key
                                      /\ last.evicted # <<>>)]
        /\ lastAdded' = IF r.added THEN r.addedSize ELSE lastAdded
        /\ faults' = IF r.read /\ ~ioOk THEN faults + 1 ELSE faults
  /\ ops' = ops + 1
  /\ UNCHANGED <<strategy, disk, sweepAt, ticks>>

\* delete: the map entry goes at once, the file when fs.remove succeeds
cacheDelete(mem, size, dsk, key, ioOk) ==
  LET i == IndexOf(mem, key) IN
  [mem |-> IF i > 0 THEN RemoveAt(mem, i) ELSE mem,
   size |-> IF i > 0 THEN size - mem[i].size ELSE size,
   dsk |-> IF strategy # "memory" /\ ioOk
           THEN [dsk EXCEPT ![getDiskPath(key)] = NoFile]
           ELSE dsk]

Delete(key, ioOk) ==
  /\ CanCall
  /\ \E r \in { cacheDelete(memoryCache, currentMemorySize, disk, key,
                             ioOk) } :
        /\ memoryCache' = r.mem
        /\ currentMemorySize' = r.size
        /\ disk' = r.dsk
  /\ last' = [Call("delete", key, <<>>, 0) EXCEPT
                !.ioOk = (strategy # "memory" => ioOk),
                !.threw = TryCatch(strategy # "memory" /\ ~ioOk)]
  /\ ops' = ops + 1
  /\ faults' = IF strategy # "memory" /\ ~ioOk THEN faults + 1 ELSE faults
  /\ UNCHANGED <<strategy, now, sweepAt, hung, ticks, lastAdded>>

Clear(ioOk) ==
  /\ CanCall
  /\ memoryCache' = <<>>
  /\ currentMemorySize' = 0
  /\ disk' = IF strategy # "memory" /\ ioOk
             THEN [f \in DOMAIN disk |-> NoFile]
             ELSE disk
  /\ last' = [Call("clear", <<>>, <<>>, 0) EXCEPT
                !.ioOk = (strategy # "memory" => ioOk),
                !.threw = TryCatch(strategy # "memory" /\ ~ioOk)]
  /\ ops' = ops + 1
  /\ faults' = IF strategy # "memory" /\ ~ioOk THEN faults + 1 ELSE faults
  /\ UNCHANGED <<strategy, now, sweepAt, hung, ticks, lastAdded>>

\* the setInterval callback; the timer's phase relative to the clock of the
\* model is not fixed, two firings are SweepIntervalMs apart
Cleanup ==
  /\ CanCall
  /\ sweepAt = -1 \/ now - sweepAt >= SweepIntervalMs
  /\ memoryCache' = Sweep(memoryCache, now)
  /\ currentMemorySize' =
       currentMemorySize
         - (SumSizes(memoryCache) - SumSizes(Sweep(memoryCache, now)))
  /\ sweepAt' = now
  /\ last' = Call("cleanup", <<>>, <<>>, 0)
  /\ ops' = ops + 1
  /\ UNCHANGED <<strategy, now, disk, hung, ticks, faults, lastAdded>>

\* time passes between two handlers
Tick(d) ==
  /\ ~hung
  /\ ticks < MaxTicks
  /\ now' = now + d
  /\ ticks' = ticks + 1
  /\ UNCHANGED <<strategy, memoryCache, currentMemorySize, disk, sweepAt,
                 hung, ops, faults, last, lastAdded>>

\* no set has been called for any key
NeverSet == [k \in Keys |-> [given |-> FALSE, at |-> 0, ttl |-> 0]]

\* the record of set(key, data, ttl) called at clock reading t
Recorded(history, key, ttl, t) ==
  [history EXCEPT ![key] = [given |-> TRUE, at |-> t, ttl |-> ActualTtl(ttl)]]

\* the process ends and the next one constructs its CacheService over the
\* same directory: a new empty map, the counter at 0, the files as they are
Restart ==
  /\ ~hung
  /\ memoryCache # <<>>
  /\ memoryCache' = <<>>
  /\ currentMemorySize' = 0
  /\ sweepAt' = now
  /\ last' = Call("constructor", <<>>, <<>>, 0)
  /\ UNCHANGED <<strategy, now, disk, hung, ops, ticks, faults, lastAdded>>

MaxInFlight == 1

\* no get is waiting for the disk
NoneInFlight ==
  [pc |-> "none", key |-> <<>>, at |-> 0, entry |-> [found |-> FALSE],
   count |-> 0]

\* no key has been deleted
NothingRemoved == [k \in Keys |-> FALSE]

\* get, from its first line to the await of getDiskEntry: the clock reading
\* is taken, the memory tier misses and an expired entry is dropped
GetBegin(key) ==
  /\ CanCall
  /\ inFlight.pc = "none" /\ inFlight.count < MaxInFlight
  /\ LET i == IF strategy # "disk" THEN IndexOf(memoryCache, key) ELSE 0
         memHit == i > 0 /\ Fresh(memoryCache[i], now)
     IN /\ ReadsDisk(memHit)
        /\ memoryCache' = IF i > 0 THEN RemoveAt(memoryCache, i)
                          ELSE memoryCache
        /\ currentMemorySize' = IF i > 0
                                THEN currentMemorySize - memoryCache[i].size
                                ELSE currentMemorySize
  /\ inFlight' = [pc |-> "started", key |-> key, at |-> now,
                  entry |-> [found |-> FALSE], count |-> inFlight.count + 1]
  /\ UNCHANGED <<strategy, now, disk, sweepAt, hung, ops, ticks, faults,
                 last, lastAdded, lastSet, removed>>

\* getDiskEntry of the waiting get reads the file as it is now
GetRead ==
  /\ ~hung
  /\ inFlight.pc = "started"
  /\ inFlight' = [inFlight EXCEPT
                    !.pc = "read",
                    !.entry = getDiskEntry(disk, inFlight.key, TRUE)]
  /\ UNCHANGED <<cacheVars, lastSet, removed>>

\* get, after the await: the entry that was read is judged against the clock
\* reading taken at the start and, in the hybrid strategy, put into the map
GetEnd ==
  /\ ~hung
  /\ inFlight.pc = "read"
  /\ LET d == inFlight.entry
         diskHit == d.found /\ Fresh(d, inFlight.at)
     IN \E m \in { IF RepopulatesMemory(diskHit)
                   THEN setMemoryEntry(memoryCache, currentMemorySize,
                                       inFlight.key, d.data, d.ttl, now)
                   ELSE [mem |-> memoryCache, size |-> currentMemorySize,
                         t |-> now, evicted |-> <<>>, diverged |-> FALSE] } :
          /\ memoryCache' = m.mem
          /\ currentMemorySize' = m.size
          /\ hung' = m.diverged
          /\ now' = m.t
          /\ last' = [Call("get", inFlight.key, <<>>, 0) EXCEPT
                        !.at = inFlight.at,
                        !.completed = ~m.diverged,
                        !.diskRead = TRUE,
                        !.result = IF diskHit /\ ~m.diverged
                                   THEN Found(d.data) ELSE NotFound,
                        !.evicted = m.evicted,
                        !.added = (RepopulatesMemory(diskHit)
                                   /\ ~m.diverged)]
          /\ lastAdded' = IF RepopulatesMemory(diskHit) /\ ~m.diverged
                          THEN calculateSize(d.data) ELSE lastAdded
  /\ inFlight' = [inFlight EXCEPT !.pc = "none"]
  /\ UNCHANGED <<strategy, disk, sweepAt, ops, ticks, faults, lastSet,
                 removed>>


-----------------------------------------------------------------------------
(* Resolver inputs.  A string is the sequence of its pieces; the empty      *)
(* string is the empty sequence.                                            *)

MaxLangs == 3

Undefined == "undefined"

Codes == { "fr-FR", "en-US", "de-DE" }

\* names a resource can have: a language code, or what `${undefined}` gives
ResourceNames == Codes \cup { Undefined }

MessageKeys == { "a.b" }

Messages == { "", "Welcome", "Bienvenue" }

\* a languages/<code>.json that does not exist
NoResource == [exists |-> FALSE, entries |-> <<>>]

\* the catalogs a resource can hold: each key absent or mapped to a message
Catalogs ==
  { [exists |-> TRUE, entries |-> e] :
      e \in UNION { [ks -> Messages] : ks \in SUBSET MessageKeys } }

RECURSIVE Distinct(_)
Distinct(L) ==
  \/ L = <<>>
  \/ /\ \A i \in 2..Len(L) : L[i] # Head(L)
     /\ Distinct(Tail(L))

LanguageLists ==
  { L \in UNION { [1..n -> Codes] : n \in 0..MaxLangs } : Distinct(L) }

Str(x) == IF x = "" THEN <<>> ELSE <<x>>

\* a join that would drop the separator
RECURSIVE JoinBare(_, _)
JoinBare(parts, sep) ==
  IF parts = <<>> THEN <<>> ELSE parts[1] \o JoinBare(Tail(parts), sep)

RECURSIVE Join(_, _)
Join(parts, sep) ==
  IF parts = <<>> THEN <<>>
  ELSE IF Len(parts) = 1 THEN parts[1]
  ELSE parts[1] \o <<sep>> \o Join(Tail(parts), sep)

-----------------------------------------------------------------------------
(* The strict resolver: scripts/localizeMessage.ts *)

Threw(kind, language, consulted) ==
  [ok |-> FALSE, error |-> kind, language |-> language, value |-> <<>>,
   consulted |-> consulted]

Returned(value, consulted) ==
  [ok |-> TRUE, error |-> "none", language |-> "", value |-> value,
   consulted |-> consulted]

\* require(`.../languages/${language}.json`)
loadLanguageJson(language) == resources[language]

\* a lookup that would accept the empty message
messageByLanguageAny(messageKey, languageJson) ==
  IF messageKey \in DOMAIN languageJson.entries
  THEN [found |-> TRUE, message |-> languageJson.entries[messageKey]]
  ELSE [found |-> FALSE, message |-> ""]

\* `if (!message) throw`: an absent key and an empty message both throw
messageByLanguage(messageKey, languageJson) ==
  IF /\ messageKey \in DOMAIN languageJson.entries
     /\ languageJson.entries[messageKey] # ""
  THEN [found |-> TRUE, message |-> languageJson.entries[messageKey]]
  ELSE [found |-> FALSE, message |-> ""]

firstLanguageCondition(language, message) ==
  <<"{% if user.user_metadata.language == '">> \o Str(language)
    \o <<"' %}">> \o Str(message)

middleLanguageCondition(language, message) ==
  <<"{% elsif user.user_metadata.language == '">> \o Str(language)
    \o <<"' %}">> \o Str(message)

defaultLanguageCondition(language, message) ==
  <<"{% else %}">> \o Str(message) \o <<"{% endif %}">>

createLanguageCondition(messageKey, language, conditionType) ==
  LET languageJson == loadLanguageJson(language) IN
  IF ~languageJson.exists THEN [ok |-> FALSE, error |-> "module-not-found"]
  ELSE LET m == messageByLanguage(messageKey, languageJson) IN
       IF ~m.found THEN [ok |-> FALSE, error |-> "message-not-found"]
       ELSE [ok |-> TRUE,
             value |-> CASE conditionType = "FIRST" ->
                              firstLanguageCondition(language, m.message)
                         [] conditionType = "LAST" ->
                              defaultLanguageCondition(language, m.message)
                         [] conditionType = "MIDDLE" ->
                              middleLanguageCondition(language, m.message)]

\* a default branch that would be built from the last listed language
DefaultOfLast(firstLanguage, restLanguages) ==
  IF restLanguages = <<>> THEN firstLanguage
  ELSE restLanguages[Len(restLanguages)]

\* the language the default (else) branch is built from
DefaultOf(firstLanguage, restLanguages) == firstLanguage

\* the calls of createLanguageCondition, in the order they are made
Conditions(langs) ==
  LET firstLanguage == IF langs = <<>> THEN Undefined ELSE Head(langs)
      restLanguages == IF langs = <<>> THEN <<>> ELSE Tail(langs)
  IN <<[language |-> firstLanguage, type |-> "FIRST"]>>
       \o [i \in 1..Len(restLanguages) |->
             [language |-> restLanguages[i], type |-> "MIDDLE"]]
       \o <<[language |-> DefaultOf(firstLanguage, restLanguages),
             type |-> "LAST"]>>

\* a resolver that would make every call before looking at any outcome
RunAllConditions(messageKey, calls, done, consulted) ==
  LET rs == [i \in 1..Len(calls) |->
               createLanguageCondition(messageKey, calls[i].language,
                                       calls[i].type)]
      all == [i \in 1..Len(calls) |-> calls[i].language]
      failed == { i \in 1..Len(calls) : ~rs[i].ok }
  IN IF failed # {}
     THEN LET i == CHOOSE i \in failed : \A j \in failed : i <= j
          IN Threw(rs[i].error, calls[i].language, all)
     ELSE Returned(Join([i \in 1..Len(calls) |-> rs[i].value], "\n"), all)

\* the calls are made one after the other; the first that throws ends it
RECURSIVE RunConditions(_, _, _, _)
RunConditions(messageKey, calls, done, consulted) ==
  IF calls = <<>> THEN Returned(Join(done, "\n"), consulted)
  ELSE LET c == Head(calls)
           r == createLanguageCondition(messageKey, c.language, c.type)
       IN IF ~r.ok
          THEN Threw(r.error, c.language, Append(consulted, c.language))
          ELSE RunConditions(messageKey, Tail(calls), Append(done, r.value),
                             Append(consulted, c.language))

localizeMessage(messageKey) ==
  RunConditions(messageKey, Conditions(languages), <<>>, <<>>)

\* a resolver that would take the first language off the list with shift()
LanguagesShifted(langs) == IF langs = <<>> THEN langs ELSE Tail(langs)

\* `const [firstLanguage, ...restLanguages] = languages` and
\* restLanguages.map leave the configured list as it is
LanguagesAfter(langs) == langs

\* the call repeats the one before it
Again(op, key) == resolved.op = op /\ resolved.key = key

\* a direct call of the exported function
LocalizeMessage(messageKey) ==
  /\ resolved' = localizeMessage(messageKey)
                   @@ [op |-> "localizeMessage", key |-> messageKey,
                       again |-> Again("localizeMessage", messageKey)]
  /\ languages' = LanguagesAfter(languages)
  /\ UNCHANGED <<resources, i18nCatalogs>>

\* main.ts: the guard on config.languages, then the generation of a
\* template whose subject is messageKey
Main(messageKey) ==
  /\ resolved' = (IF Len(languages) = 0
                  THEN Threw("No languages found", "", <<>>)
                  ELSE localizeMessage(messageKey))
                   @@ [op |-> "main", key |-> messageKey,
                       again |-> Again("main", messageKey)]
  /\ languages' = LanguagesAfter(languages)
  /\ UNCHANGED <<resources, i18nCatalogs>>

-----------------------------------------------------------------------------
(* The lenient resolver: generators/LiquidGenerator.ts *)

\* BuildCommand.buildTemplates: the catalogs that loaded, in config order
RECURSIVE LoadedCatalogs(_, _)
LoadedCatalogs(langs, res) ==
  IF langs = <<>> THEN <<>>
  ELSE (IF res[Head(langs)].exists
        THEN <<[code |-> Head(langs), catalog |-> res[Head(langs)]]>>
        ELSE <<>>)
       \o LoadedCatalogs(Tail(langs), res)

MissingPlaceholder(translationKey) ==
  <<"[MISSING: ">> \o Str(translationKey) \o <<"]">>

\* a lookup that would fall back only when there is no entry (`??`)
TranslationValueNullish(catalog, translationKey) ==
  IF catalog.exists /\ translationKey \in DOMAIN catalog.entries
  THEN Str(catalog.entries[translationKey])
  ELSE MissingPlaceholder(translationKey)

\* catalog?.entries.get(key)?.value || `[MISSING: ${key}]`
TranslationValue(catalog, translationKey) ==
  IF /\ catalog.exists
     /\ translationKey \in DOMAIN catalog.entries
     /\ catalog.entries[translationKey] # ""
  THEN Str(catalog.entries[translationKey])
  ELSE MissingPlaceholder(translationKey)

generateLiquidConditions(translationKey, catalogs) ==
  LET n == Len(catalogs)
      ifCondition ==
        IF n > 0
        THEN << <<"{% if user.user_metadata.language == '">>
                  \o Str(catalogs[1].code) \o <<"' %}">>
                  \o TranslationValue(catalogs[1].catalog, translationKey) >>
        ELSE <<>>
      elsifConditions ==
        [i \in 1..(IF n > 0 THEN n - 1 ELSE 0) |->
           <<"{% elsif user.user_metadata.language == '">>
             \o Str(catalogs[i + 1].code) \o <<"' %}">>
             \o TranslationValue(catalogs[i + 1].catalog, translationKey)]
      elseCondition ==
        IF n > 0
        THEN << <<"{% else %}">>
                  \o TranslationValue(catalogs[1].catalog, translationKey)
                  \o <<"{% endif %}">> >>
        ELSE <<>>
  IN Join(ifCondition \o elsifConditions \o elseCondition, "\n")

GenerateLiquidConditions(translationKey) ==
  /\ resolved' = Returned(generateLiquidConditions(translationKey,
                                                   i18nCatalogs), <<>>)
                   @@ [op |-> "generateLiquidConditions",
                       key |-> translationKey,
                       again |-> Again("generateLiquidConditions",
                                       translationKey)]
  /\ UNCHANGED <<languages, resources, i18nCatalogs>>

-----------------------------------------------------------------------------
(* The catalog loader: core/services/I18nService.ts.  The command line    *)
(* application hands one CacheService to the loader of each command.      *)

LoaderNames == { "build", "analyze" }

LangCodes == { <<"f", "r">>, <<"e", "n">> }

\* the content of a well-formed <code>.json: translation key -> value
Translations == { [k \in MessageKeys |-> "Bienvenue"] }

NoLanguageFile ==
  [exists |-> FALSE, wellFormed |-> FALSE, translations |-> <<>>, mtime |-> 0]

LanguageFile(wellFormed, translations, mtime) ==
  [exists |-> TRUE, wellFormed |-> wellFormed, translations |-> translations,
   mtime |-> mtime]

\* what a <code>.json can hold when written at the clock reading t
FileContents(t) ==
  { LanguageFile(TRUE, tr, t) : tr \in Translations }
    \cup { LanguageFile(FALSE, <<>>, t) }

InitialFile == LanguageFile(TRUE, [k \in MessageKeys |-> "Welcome"], 0)

\* `language:${languageCode}`
CacheKeyOf(languageCode) ==
  <<"l", "a", "n", "g", "u", "a", "g", "e", ":">> \o languageCode

LoaderFiles == { getDiskPath(CacheKeyOf(c)) : c \in LangCodes }

CatalogTtl == Ttl(3600)

NoCatalog == [registered |-> FALSE]

MaxCatalogEntries == 200

MaxBlank == 1

\* the values of an entry: empty, white space only, a text
EntryValues == { "", " ", "Welcome" }

\* value.trim()
Trim(value) == IF value = " " THEN "" ELSE value

\* the quotients whose product with 100 is, in double precision, just below
\* the half it equals in exact arithmetic (57.49999999999999 for 23 / 40),
\* for totals up to MaxCatalogEntries
FallsShort ==
  { <<23, 40>>, <<46, 80>>, <<69, 120>>, <<92, 160>>, <<29, 200>>,
    <<57, 200>>, <<113, 200>>, <<115, 200>> }

\* a rounding that would drop the fraction
TruncatedPercent(completedEntries, totalEntries) ==
  IF totalEntries > 0 THEN (completedEntries * 100) \div totalEntries ELSE 0

\* totalEntries > 0 ? Math.round((completedEntries / totalEntries) * 100) : 0;
\* Math.round takes a half upwards
RoundedPercent(completedEntries, totalEntries) ==
  IF totalEntries > 0
  THEN IF <<completedEntries, totalEntries>> \in FallsShort
       THEN (completedEntries * 100) \div totalEntries
       ELSE (2 * completedEntries * 100 + totalEntries) \div (2 * totalEntries)
  ELSE 0

\* Math.round((completed / total) * 100), 0 for no entries
calculateCompleteness(translations) ==
  RoundedPercent(Cardinality({ k \in DOMAIN translations :
                                Trim(translations[k]) # "" }),
                 Cardinality(DOMAIN translations))

\* entries.size of a catalog given by the number of entries of each value
TotalEntries(counts) == counts[""] + counts[" "] + counts["Welcome"]

\* the entries that pass the filter e.value.trim().length > 0
CompletedEntries(counts) == counts["Welcome"]

\* the catalogs calculateCompleteness is given
CatalogShapes ==
  { [v \in EntryValues |-> IF v = "" THEN e ELSE IF v = " " THEN b ELSE t] :
      e \in 0..MaxCatalogEntries, b \in 0..MaxBlank,
      t \in 0..MaxCatalogEntries }

NoCompleteness == [done |-> FALSE, value |-> 0]

\* calculateCompleteness(entries)
CalculateCompleteness ==
  /\ ~completeness.done
  /\ completeness' =
       [done |-> TRUE,
        value |-> RoundedPercent(CompletedEntries(catalogEntries),
                                 TotalEntries(catalogEntries))]
  /\ UNCHANGED <<catalogEntries, i18nResolved, poolVars>>

\* context.currentLanguage / context.fallbackLanguage; the empty string is
\* a fallback that is not given
NoLanguage == <<>>

I18nThrew(key, currentLanguage, fallbackLanguage, error) ==
  [op |-> "resolve", key |-> key, current |-> currentLanguage,
   fallback |-> fallbackLanguage, ok |-> FALSE, error |-> error,
   value |-> "", from |-> NoLanguage]

I18nReturned(key, currentLanguage, fallbackLanguage, value, from) ==
  [op |-> "resolve", key |-> key, current |-> currentLanguage,
   fallback |-> fallbackLanguage, ok |-> TRUE, error |-> "none",
   value |-> value, from |-> from]

NoI18nResolve == [I18nThrew("", NoLanguage, NoLanguage, "none") EXCEPT
                    !.op = "none"]

\* entries.get exists on a Map; the object JSON.parse gives has none
HasGet(catalog) == catalog[2].entries.kind = "Map"

\* catalog.entries.get(key)
EntriesGet(catalog, key) ==
  IF ~HasGet(catalog)
  THEN [threw |-> TRUE, found |-> FALSE, value |-> ""]
  ELSE IF key \in DOMAIN catalog[2].entries.pairs
  THEN [threw |-> FALSE, found |-> TRUE,
        value |-> catalog[2].entries.pairs[key]]
  ELSE [threw |-> FALSE, found |-> FALSE, value |-> ""]

\* `context.fallbackLanguage && context.fallbackLanguage !== currentLanguage`
UsableFallback(fallbackLanguage, currentLanguage) ==
  IF fallbackLanguage # NoLanguage /\ fallbackLanguage # currentLanguage
  THEN fallbackLanguage
  ELSE NoLanguage

\* resolve(key, context) without variables: interpolateVariables returns
\* the text as it is
i18nResolve(cats, key, currentLanguage, fallbackLanguage) ==
  LET Threw_(error) ==
        I18nThrew(key, currentLanguage, fallbackLanguage, error)
      catalog == IF currentLanguage \in LangCodes
                 THEN cats[currentLanguage] ELSE NoCatalog
  IN IF catalog = NoCatalog THEN Threw_("LanguageNotFound")
     ELSE LET entry == EntriesGet(catalog, key) IN
     IF entry.threw THEN Threw_("TypeError")
     ELSE IF entry.found
     THEN I18nReturned(key, currentLanguage, fallbackLanguage, entry.value,
                       currentLanguage)
     ELSE LET fb == UsableFallback(fallbackLanguage, currentLanguage)
              fallbackCatalog == IF fb \in LangCodes THEN cats[fb]
                                 ELSE NoCatalog
          IN IF fallbackCatalog = NoCatalog
             THEN Threw_("TranslationMissing")
             ELSE LET fallbackEntry == EntriesGet(fallbackCatalog, key) IN
                  IF fallbackEntry.threw THEN Threw_("TypeError")
                  ELSE IF fallbackEntry.found
                  THEN I18nReturned(key, currentLanguage, fallbackLanguage,
                                    fallbackEntry.value, fb)
                  ELSE Threw_("TranslationMissing")

\* a call of resolve on the service of the build command
Resolve(key, currentLanguage, fallbackLanguage) ==
  /\ ~hung
  /\ i18nResolved' = i18nResolve(loaderCatalogs["build"], key,
                                 currentLanguage, fallbackLanguage)
  /\ UNCHANGED <<cacheVars, loaderVars, catalogEntries, completeness,
                 poolVars>>

-----------------------------------------------------------------------------
(* The worker pool: utils/Performance.ts.  A task is named by its place    *)
(* among the submissions.                                                  *)

MaxTasks == 3

MaxPoolWorkers == 2

TaskIds == 1..MaxTasks

\* a task that has not been submitted
NewTask == [state |-> "new", running |-> FALSE, worker |-> 0,
            outcome |-> "none"]

\* a queue that would hand out the task submitted last
Pop(queue) ==
  [task |-> queue[Len(queue)], rest |-> SubSeq(queue, 1, Len(queue) - 1)]

\* this.taskQueue.shift()
Shift(queue) == [task |-> Head(queue), rest |-> Tail(queue)]

\* this.workers.find((w) => !w.busy), or the worker that is created while
\* there are fewer than maxWorkers; 0 when there is none
AvailableWorker(ws) ==
  LET idle == { i \in 1..Len(ws) : ~ws[i].busy } IN
  IF idle # {} THEN CHOOSE i \in idle : \A j \in idle : i <= j
  ELSE IF Len(ws) < maxWorkers THEN Len(ws) + 1
  ELSE 0

\* processQueue up to its await: the task at the head of the queue is
\* started on an available worker
processQueue(ws, queue, ts, st) ==
  LET w == AvailableWorker(ws) IN
  IF queue = <<>> \/ w = 0
  THEN [workers |-> ws, taskQueue |-> queue, tasks |-> ts, started |-> st]
  ELSE LET ws1 == IF w > Len(ws)
                  THEN Append(ws, [id |-> Len(ws), busy |-> FALSE])
                  ELSE ws
           s == Shift(queue)
       IN [workers |-> [ws1 EXCEPT ![w].busy = TRUE],
           taskQueue |-> s.rest,
           tasks |-> [ts EXCEPT ![s.task] =
                        [state |-> "racing", running |-> TRUE,
                         worker |-> w, outcome |-> "none"]],
           started |-> Append(st, s.task)]

\* what is not the worker pool
notPoolVars == <<cacheVars, resolveVars, loaderVars, templateVars, buildVars,
                 configVars, historyVars, measureVars>>

\* execute(task): the task joins the queue and processQueue is called
Execute ==
  /\ \E t \in TaskIds :
       /\ tasks[t].state = "new"
       /\ \A u \in TaskIds : u < t => tasks[u].state # "new"
       /\ \E r \in { processQueue(workers, Append(taskQueue, t),
                                  [tasks EXCEPT ![t].state = "queued"],
                                  started) } :
            /\ workers' = r.workers
            /\ taskQueue' = r.taskQueue
            /\ tasks' = r.tasks
            /\ started' = r.started
  /\ UNCHANGED <<maxWorkers, immediates, notPoolVars>>

\* the callback of setImmediate(() => this.processQueue())
ProcessQueue ==
  /\ immediates > 0
  /\ immediates' = immediates - 1
  /\ \E r \in { processQueue(workers, taskQueue, tasks, started) } :
       /\ workers' = r.workers
       /\ taskQueue' = r.taskQueue
       /\ tasks' = r.tasks
       /\ started' = r.started
  /\ UNCHANGED <<maxWorkers, notPoolVars>>

\* the task of a worker returns or throws before the timeout: the promise
\* of execute settles with it, the worker is free, processQueue is scheduled
Complete(t, outcome) ==
  /\ tasks[t].state = "racing"
  /\ tasks' = [tasks EXCEPT ![t].state = "settled", ![t].running = FALSE,
                            ![t].outcome = outcome]
  /\ workers' = [workers EXCEPT ![tasks[t].worker].busy = FALSE]
  /\ immediates' = immediates + 1
  /\ UNCHANGED <<maxWorkers, taskQueue, started, notPoolVars>>

\* the timer of Promise.race fires first: the promise of execute is
\* rejected with 'Task timeout' and the worker is free, while the task
\* itself goes on
Timeout(t) ==
  /\ tasks[t].state = "racing"
  /\ tasks' = [tasks EXCEPT ![t].state = "settled",
                            ![t].outcome = "Task timeout"]
  /\ workers' = [workers EXCEPT ![tasks[t].worker].busy = FALSE]
  /\ immediates' = immediates + 1
  /\ UNCHANGED <<maxWorkers, taskQueue, started, notPoolVars>>

\* a task that has timed out comes to its end
LateEnd(t) ==
  /\ tasks[t].state = "settled" /\ tasks[t].running
  /\ tasks' = [tasks EXCEPT ![t].running = FALSE]
  /\ UNCHANGED <<maxWorkers, workers, taskQueue, immediates, started,
                 notPoolVars>>

\* no worker pool has been constructed
InitNoPool ==
  /\ maxWorkers = 0
  /\ workers = <<>>
  /\ taskQueue = <<>>
  /\ tasks = [t \in TaskIds |-> NewTask]
  /\ immediates = 0
  /\ started = <<>>

\* no catalog is being measured
InitNoUtility ==
  /\ catalogEntries = [v \in EntryValues |-> 0]
  /\ completeness = NoCompleteness
  /\ i18nResolved = NoI18nResolve
  /\ InitNoPool

\* the catalog built from a well-formed resource
BuildCatalog(languageCode, file) ==
  <<ObjectMark,
    [language |-> languageCode,
     entries |-> [kind |-> "Map", pairs |-> file.translations],
     lastModified |-> file.mtime,
     completeness |-> calculateCompleteness(file.translations)]>>

LoaderThrew(op, loader, languageCode, error, file) ==
  [op |-> op, loader |-> loader, code |-> languageCode, ok |-> FALSE,
   error |-> error, catalog |-> NoCatalog, cacheHit |-> FALSE,
   resource |-> file]

LoaderReturned(op, loader, languageCode, catalog, cacheHit, file) ==
  [op |-> op, loader |-> loader, code |-> languageCode, ok |-> TRUE,
   error |-> "none", catalog |-> catalog, cacheHit |-> cacheHit,
   resource |-> file]

NoLoad == LoaderThrew("none", "", <<>>, "none", NoLanguageFile)

\* `if (cached)`: whatever the cache returned is used as it is
CachedIsUsed(found, data, file) == found

\* a loader that would register the catalog before reading the resource
RegistersOnFailure(cats, loader, languageCode) ==
  [cats EXCEPT ![loader][languageCode] = <<ObjectMark, NoCatalog>>]

\* the throw statements come before this.catalogs.set
UntouchedOnFailure(cats, loader, languageCode) == cats

\* the disk calls of a loadLanguage that fail: the read of cache.get, the
\* write of cache.set
LoadOutcomes ==
  { o \in [get : DiskOutcomes, set : DiskOutcomes] :
      faults + (IF o.get THEN 0 ELSE 1) + (IF o.set THEN 0 ELSE 1)
        <= MaxFaults }

\* one call of loadLanguage(languageCode), whoever makes it
LoadLanguageCall(loader, languageCode, io) ==
  /\ \E g \in { cacheGet(memoryCache, currentMemorySize, disk,
                          CacheKeyOf(languageCode), now, io.get) } :
     LET cacheKey == CacheKeyOf(languageCode)
         file == languageFiles[languageCode]
         cached == CachedIsUsed(g.result.found, g.result.data, file)
         built == ~cached /\ file.exists /\ file.wellFormed
         catalog == BuildCatalog(languageCode, file)
     IN
     \E s \in { IF built
                THEN cacheSet(g.mem, g.size, disk, cacheKey, catalog,
                              CatalogTtl, g.t, io.set)
                ELSE [mem |-> g.mem, size |-> g.size, dsk |-> disk,
                      t |-> g.t, diverged |-> g.diverged,
                      written |-> FALSE] } :
        /\ io.get \/ g.read
        /\ io.set \/ (built /\ strategy # "memory")
        /\ memoryCache' = s.mem
        /\ currentMemorySize' = s.size
        /\ disk' = s.dsk
        /\ now' = s.t
        /\ hung' = s.diverged
        /\ faults' = faults + (IF io.get THEN 0 ELSE 1)
                            + (IF io.set THEN 0 ELSE 1)
        /\ loaderCatalogs' =
             IF cached
             THEN [loaderCatalogs EXCEPT ![loader][languageCode] = g.result.data]
             ELSE IF built
             THEN [loaderCatalogs EXCEPT ![loader][languageCode] = catalog]
             ELSE UntouchedOnFailure(loaderCatalogs, loader, languageCode)
        /\ loaded' =
             IF cached
             THEN LoaderReturned("loadLanguage", loader, languageCode,
                                 g.result.data, TRUE, file)
             ELSE IF built
             THEN LoaderReturned("loadLanguage", loader, languageCode,
                                 catalog, FALSE, file)
             ELSE LoaderThrew("loadLanguage", loader, languageCode,
                              "LanguageNotFound", file)
  /\ UNCHANGED <<strategy, sweepAt, ticks, last, lastAdded, languageFiles,
                 edits>>

\* a command calls loadLanguage(languageCode)
LoadLanguage(loader, languageCode, io) ==
  /\ CanCall
  /\ LoadLanguageCall(loader, languageCode, io)
  /\ ops' = ops + 1

\* the file removals of an invalidation that fail
DeleteOutcomes ==
  { failed \in SUBSET LangCodes :
      /\ strategy = "memory" => failed = {}
      /\ faults + Cardinality(failed) <= MaxFaults }

\* this.cache.delete for each language of the sequence, one after the other
RECURSIVE DeleteEach(_, _, _, _, _)
DeleteEach(mem, size, dsk, codes, failed) ==
  IF codes = <<>> THEN [mem |-> mem, size |-> size, dsk |-> dsk]
  ELSE LET r == cacheDelete(mem, size, dsk, CacheKeyOf(Head(codes)),
                            Head(codes) \notin failed)
       IN DeleteEach(r.mem, r.size, r.dsk, Tail(codes), failed)

\* this.catalogs.keys(): the languages this loader has registered
RegisteredLanguages(cats, loader) ==
  LET RECURSIVE Enum(_)
      Enum(S) == IF S = {} THEN <<>>
                 ELSE LET c == CHOOSE c \in S : TRUE
                      IN <<c>> \o Enum(S \ {c})
  IN Enum({ c \in LangCodes : cats[loader][c] # NoCatalog })

\* invalidateCache(language)
InvalidateCache(loader, languageCode, failed) ==
  /\ CanCall
  /\ failed \subseteq {languageCode}
  /\ \E r \in { DeleteEach(memoryCache, currentMemorySize, disk,
                            <<languageCode>>, failed) } :
        /\ memoryCache' = r.mem
        /\ currentMemorySize' = r.size
        /\ disk' = r.dsk
  /\ loaderCatalogs' = [loaderCatalogs EXCEPT ![loader][languageCode] = NoCatalog]
  /\ loaded' = LoaderReturned("invalidateCache", loader, languageCode,
                              NoCatalog, FALSE, languageFiles[languageCode])
  /\ faults' = faults + Cardinality(failed)
  /\ ops' = ops + 1
  /\ UNCHANGED <<strategy, now, sweepAt, hung, ticks, last, lastAdded,
                 languageFiles, edits>>

\* invalidateCache()
InvalidateAll(loader, failed) ==
  /\ CanCall
  /\ \E codes \in { RegisteredLanguages(loaderCatalogs, loader) } :
     \E r \in { DeleteEach(memoryCache, currentMemorySize, disk, codes,
                           failed) } :
        /\ \A c \in failed : \E i \in 1..Len(codes) : codes[i] = c
        /\ memoryCache' = r.mem
        /\ currentMemorySize' = r.size
        /\ disk' = r.dsk
  /\ loaderCatalogs' = [loaderCatalogs EXCEPT ![loader] = [c \in LangCodes |-> NoCatalog]]
  /\ loaded' = LoaderReturned("invalidateAll", loader, <<>>, NoCatalog,
                              FALSE, NoLanguageFile)
  /\ faults' = faults + Cardinality(failed)
  /\ ops' = ops + 1
  /\ UNCHANGED <<strategy, now, sweepAt, hung, ticks, last, lastAdded,
                 languageFiles, edits>>

\* the resource of a language is written anew, or removed
WriteLanguageFile(languageCode, file) ==
  /\ ~hung /\ edits < MaxEdits
  /\ file # languageFiles[languageCode]
  /\ languageFiles' = [languageFiles EXCEPT ![languageCode] = file]
  /\ edits' = edits + 1
  /\ UNCHANGED <<cacheVars, loaderCatalogs, loaded>>

\* between two loader calls: a second goes by, or the hour of CatalogTtl
LoaderTickSteps == { MsPerSecond, CatalogTtl.value * MsPerSecond }

LoaderTick(d) == ticks < MaxLoaderTicks /\ Tick(d)

-----------------------------------------------------------------------------
(* The template engine and the strict generation pipeline:                 *)
(* utils/templateEngine.ts, templates/util.ts, scripts/writeFileUtil.ts,   *)
(* main.ts.  A template is the sequence of its pieces: the opening of a    *)
(* call, a quote character, a key, the closing of a call, other text.      *)

MaxSegments == 3

Open == "${localizeMessage("

Close == ")}"

\* the character U+0060, named by its code
Backtick == "U+0060"

Quotes == { "'", "\"", Backtick }

Script == "<script"

TemplateKeys == { "a.b", "c.d" }

\* what a template is written from: text, stray pieces, calls in each kind
\* of quote, a call with an empty key, one with two kinds of quote, one
\* that is never closed, a script tag
Segments ==
  { <<"x">>, <<Open>>, <<Close>>, <<"'">>, <<Script>> }
    \cup { <<Open, q, k, q, Close>> : q \in Quotes, k \in TemplateKeys }
    \cup { <<Open, "'", "'", Close>>,
           <<Open, "'", "a.b", "\"", Close>>,
           <<Open, "'", "a.b", "'">> }

RECURSIVE Flatten(_)
Flatten(segments) ==
  IF segments = <<>> THEN <<>>
  ELSE Head(segments) \o Flatten(Tail(segments))

Templates ==
  { Flatten(s) : s \in UNION { [1..n -> Segments] : n \in 0..MaxSegments } }

\* the first index from i on that holds a quote character, Len + 1 if none
RECURSIVE NextQuote(_, _)
NextQuote(content, i) ==
  IF i > Len(content) \/ content[i] \in Quotes THEN i
  ELSE NextQuote(content, i + 1)

\* the same class of three quote characters twice: the closing quote is
\* any of the three
AnyQuote(opening, closing) == closing \in Quotes

\* localizeFunctionRegex tried at index i: the opening, a quote, a run of
\* one or more pieces that are no quote, a quote, the closing
MatchAt(content, i) ==
  LET q == NextQuote(content, i + 2) IN
  IF /\ content[i] = Open
     /\ i + 1 <= Len(content) /\ content[i + 1] \in Quotes
     /\ q > i + 2 /\ q + 1 <= Len(content)
     /\ AnyQuote(content[i + 1], content[q])
     /\ content[q + 1] = Close
  THEN [matched |-> TRUE, key |-> SubSeq(content, i + 2, q - 1),
        end |-> q + 1]
  ELSE [matched |-> FALSE, key |-> <<>>, end |-> i]

\* the text [MISSING: key]
MissingKey(key) == <<"[MISSING: ">> \o key \o <<"]">>

\* a replacer without the try/catch: the error of localizeFunction leaves it
ReplacerUncaught(key, r) == [threw |-> ~r.ok, text |-> r.value]

\* the replacer callback: try { return localizeFunction(key) }
\* catch { return `[MISSING: ${key}]` }
Replacer(key, r) ==
  [threw |-> FALSE, text |-> IF r.ok THEN r.value ELSE MissingKey(key)]

\* content.replace(regex, replacer) from index i on: the leftmost match is
\* replaced and the search goes on behind it; localizeFunction maps each
\* key to what the call returns or to its failure
RECURSIVE Replace(_, _, _, _)
Replace(content, i, localizeFunction, out) ==
  IF i > Len(content) THEN out
  ELSE LET m == MatchAt(content, i) IN
       IF ~m.matched
       THEN Replace(content, i + 1, localizeFunction,
                    [out EXCEPT !.text = @ \o <<content[i]>>])
       ELSE LET p == Replacer(m.key, localizeFunction[m.key]) IN
            IF p.threw
            THEN [out EXCEPT !.ok = FALSE, !.calls = Append(@, m.key)]
            ELSE Replace(content, m.end + 1, localizeFunction,
                         [out EXCEPT !.text = @ \o p.text,
                                     !.calls = Append(@, m.key)])

\* the keys of the calls the regex finds anywhere in content
CallKeys(content) ==
  { MatchAt(content, i).key :
      i \in { j \in 1..Len(content) : MatchAt(content, j).matched } }

processTemplate(content, localizeFunction) ==
  Replace(content, 1, localizeFunction,
          [ok |-> TRUE, text |-> <<>>, calls |-> <<>>])

\* content.match(/\$\{localizeMessage\([^)]*\)\}/g): from an opening to the
\* first closing behind it, leftmost first, one behind the other
RECURSIVE NextClose(_, _)
NextClose(content, i) ==
  IF i > Len(content) \/ content[i] = Close THEN i
  ELSE NextClose(content, i + 1)

RECURSIVE AllCalls(_, _)
AllCalls(content, i) ==
  IF i > Len(content) THEN <<>>
  ELSE LET c == NextClose(content, i + 1) IN
       IF content[i] = Open /\ c <= Len(content)
       THEN <<SubSeq(content, i, c)>> \o AllCalls(content, c + 1)
       ELSE AllCalls(content, i + 1)

\* validationRegex.test(call)
TestCall(call) == \E i \in 1..Len(call) : MatchAt(call, i).matched

\* the includes('eval(') and includes('Function(') checks are left out:
\* no piece of a template holds either text
validateTemplate(content) ==
  LET allCalls == AllCalls(content, 1)
      invalidCalls == { i \in 1..Len(allCalls) : ~TestCall(allCalls[i]) }
      errors ==
        (IF \E i \in 1..Len(content) : content[i] = Script
         THEN { "script tags" } ELSE {})
        \cup (IF invalidCalls # {} THEN { "invalid calls" } ELSE {})
  IN [isValid |-> errors = {}, errors |-> errors]

\* a key of several pieces is in no catalog; all such keys resolve alike
AbsentKey == "?"

KeyText(key) == IF Len(key) = 1 THEN key[1] ELSE AbsentKey

\* the strict resolver as the localizeFunction of a template
StrictLocalize(content) ==
  [key \in CallKeys(content) |-> localizeMessage(KeyText(key))]

\* a localizeFunction that throws on the keys in throwing and returns a
\* text of its own for every other key
SomeLocalize(content, throwing) ==
  [key \in CallKeys(content) |->
     IF KeyText(key) \in throwing
     THEN [ok |-> FALSE, value |-> <<>>]
     ELSE [ok |-> TRUE, value |-> <<"t(">> \o key \o <<")">>]]

NoFileWritten == [written |-> FALSE, text |-> <<>>]

FileWritten(text) == [written |-> TRUE, text |-> text]

Rendered(op, ok, error, text, calls, throwing, html, json) ==
  [op |-> op, ok |-> ok, error |-> error, text |-> text, calls |-> calls,
   throwing |-> throwing, html |-> html, json |-> json]

NoRender ==
  Rendered("none", FALSE, "none", <<>>, <<>>, {}, NoFileWritten,
           NoFileWritten)

\* templateEngine.processTemplate(content, localizeFunction)
ProcessTemplate(throwing) ==
  /\ \E r \in { processTemplate(template, SomeLocalize(template, throwing)) } :
       rendered' = Rendered("processTemplate", r.ok,
                            IF r.ok THEN "none" ELSE "localizeFunction",
                            r.text, r.calls, throwing, NoFileWritten,
                            NoFileWritten)
  /\ UNCHANGED template

\* readTemplate(templateName): the outcome of the call
readTemplate(content) ==
  IF ~validateTemplate(content).isValid
  THEN [ok |-> FALSE, error |-> "Template validation failed",
        text |-> <<>>, calls |-> <<>>]
  ELSE LET r == processTemplate(content, StrictLocalize(content)) IN
       [ok |-> r.ok, error |-> IF r.ok THEN "none" ELSE "localizeMessage",
        text |-> r.text, calls |-> r.calls]

ReadTemplate ==
  /\ \E r \in { readTemplate(template) } :
       rendered' = Rendered("readTemplate", r.ok, r.error, r.text, r.calls,
                            {}, NoFileWritten, NoFileWritten)
  /\ UNCHANGED template

\* writeConfiguration(template): the subject is resolved first; the error
\* of the resolver is logged and thrown again, and no file is written
writeConfiguration(subjectKey) ==
  LET subject == localizeMessage(subjectKey) IN
  IF ~subject.ok
  THEN [ok |-> FALSE, error |-> subject.error, json |-> NoFileWritten]
  ELSE [ok |-> TRUE, error |-> "none", json |-> FileWritten(subject.value)]

WriteConfiguration(subjectKey) ==
  /\ \E w \in { writeConfiguration(subjectKey) } :
       rendered' = Rendered("writeConfiguration", w.ok, w.error, <<>>, <<>>,
                            {}, NoFileWritten, w.json)
  /\ UNCHANGED template

\* main.ts, generateTemplates, for one template: readTemplate, then
\* writeFileTemplate, then writeConfiguration; the first error ends it
GenerateTemplate(subjectKey) ==
  /\ \E r \in { readTemplate(template) } :
       IF ~r.ok
       THEN rendered' = Rendered("generateTemplates", FALSE, r.error, <<>>,
                                 r.calls, {}, NoFileWritten, NoFileWritten)
       ELSE \E w \in { writeConfiguration(subjectKey) } :
              rendered' = Rendered("generateTemplates", w.ok, w.error,
                                   r.text, r.calls, {}, FileWritten(r.text),
                                   w.json)
  /\ UNCHANGED template

-----------------------------------------------------------------------------
(* The batch build: cli/commands/BuildCommand.ts.  execute awaits one      *)
(* loadLanguage after the other, first in I18nService.initialize, then in  *)
(* buildTemplates; each awaited call is one step.                          *)

MaxBuildLangs == 2

\* config.languages: distinct codes, each enabled or not and with its
\* priority number, in whatever order the file lists them; at least one, a
\* build without languages loads nothing
BuildConfigs ==
  { L \in UNION { [1..n -> [code : LangCodes, enabled : BOOLEAN,
                            priority : 1..MaxBuildLangs]] :
                    n \in 1..MaxBuildLangs } :
      \A i, j \in 1..Len(L) : i # j => L[i].code # L[j].code }

\* execute has been called and is about to initialize its services
BuildStarted ==
  [pc |-> "initialize", i |-> 1, success |-> TRUE, failed |-> <<>>,
   catalogs |-> <<>>, templatesOk |-> TRUE, attempted |-> <<>>,
   initialized |-> <<>>]

\* the step behind the language at index i of a loop over config.languages
AfterLanguage(b, nextPc) ==
  IF b.i = Len(buildConfig) THEN [b EXCEPT !.pc = nextPc, !.i = 1]
  ELSE [b EXCEPT !.i = @ + 1]

\* results.success = false in the catch of every loadLanguage that throws
FailsOnAnyLanguage(success, i) == FALSE

\* an initialize whose catch would throw the error again: execute ends
InitializeRethrows(b, ok) ==
  IF ok THEN AfterLanguage(b, "load")
  ELSE [b EXCEPT !.pc = "done", !.success = FALSE]

\* the catch of initialize logs the error and the loop goes on
InitializeContinues(b, ok) == AfterLanguage(b, "load")

\* initializeServices: i18nService.initialize loads every configured
\* language and logs the ones that fail
BuildInitialize(io) ==
  /\ build.pc = "initialize" /\ ~hung
  /\ LoadLanguageCall("build", buildConfig[build.i].code, io)
  /\ build' =
       InitializeContinues(
         [build EXCEPT
            !.attempted = Append(@, buildConfig[build.i].code),
            !.initialized = IF loaded'.ok
                            THEN Append(@, buildConfig[build.i].code)
                            ELSE @],
         loaded'.ok)
  /\ UNCHANGED <<ops, buildConfig>>

\* buildTemplates, lines 159-169, for an enabled language
BuildLoad(io) ==
  /\ build.pc = "load" /\ ~hung
  /\ buildConfig[build.i].enabled
  /\ LoadLanguageCall("build", buildConfig[build.i].code, io)
  /\ build' =
       AfterLanguage(
         IF loaded'.ok
         THEN [build EXCEPT
                 !.catalogs = Append(@, buildConfig[build.i].code)]
         ELSE [build EXCEPT
                 !.failed = Append(@, buildConfig[build.i].code),
                 !.success = FailsOnAnyLanguage(@, build.i)],
         "templates")
  /\ UNCHANGED <<ops, buildConfig>>

\* buildTemplates, lines 159-169, for a language that is not enabled
BuildSkip ==
  /\ build.pc = "load"
  /\ ~buildConfig[build.i].enabled
  /\ build' = AfterLanguage(build, "templates")
  /\ UNCHANGED <<cacheVars, loaderVars, buildConfig>>

\* buildTemplates, lines 172-239, and the result of execute: the enabled
\* templates are processed and generated, all of them well or not
BuildTemplates(templatesOk) ==
  /\ build.pc = "templates"
  /\ build' = [build EXCEPT !.pc = "done",
                            !.templatesOk = templatesOk,
                            !.success = @ /\ templatesOk]
  /\ UNCHANGED <<cacheVars, loaderVars, buildConfig>>

-----------------------------------------------------------------------------
(* The configuration loader: utils/ConfigLoader.ts.  A JSON value is a     *)
(* record with its kind; a field that is absent and a field that is the    *)
(* empty string are both falsy and are both written "".                    *)

MaxEntries == 2

MaxConfigEdits == 1

JsonNull == [kind |-> "null"]

JsonNumber == [kind |-> "number"]

\* a field that is not there
Absent == [kind |-> "absent", items |-> <<>>]

\* a field that holds {}: truthy, and no array
NotArray == [kind |-> "object", items |-> <<>>]

ArrayOf(items) == [kind |-> "array", items |-> items]

TemplateEntry(name, from, subjectKey) ==
  [kind |-> "object", name |-> name, from |-> from,
   subjectKey |-> subjectKey]

LanguageEntry(code, name) == [kind |-> "object", code |-> code, name |-> name]

\* a language of the legacy format: the code itself
JsonString(text) == [kind |-> "string", text |-> text]

TemplateEntries ==
  { TemplateEntry("welcome", "a@b.c", "a.b"),
    TemplateEntry("", "a@b.c", "a.b"),
    TemplateEntry("welcome", "", "a.b"),
    TemplateEntry("welcome", "a@b.c", ""),
    JsonNull }

LanguageEntries ==
  { LanguageEntry("fr-FR", "French"),
    LanguageEntry("", "French"),
    LanguageEntry("fr-FR", ""),
    JsonString("fr-FR"),
    JsonString(""),
    JsonNull }

ArraysOf(entries) ==
  { ArrayOf(items) :
      items \in UNION { [1..n -> entries] : n \in 0..MaxEntries } }

\* what JSON.parse can return for the content of a configuration file
RawConfigs ==
  { JsonNull, JsonNumber }
    \cup [kind : {"config"}, name : {"", "Auth0 Email Templates"},
          templates : {Absent, NotArray} \cup ArraysOf(TemplateEntries),
          languages : {Absent, NotArray} \cup ArraysOf(LanguageEntries)]

NoConfigFile == [exists |-> FALSE]

\* a file whose content is no JSON
BrokenConfigFile(mtime) ==
  [exists |-> TRUE, parses |-> FALSE, mtime |-> mtime]

ConfigFile(raw, mtime) ==
  [exists |-> TRUE, parses |-> TRUE, raw |-> raw, mtime |-> mtime]

NoCachedConfig == [cached |-> FALSE]

CachedConfig(config, mtime) ==
  [cached |-> TRUE, config |-> config, mtime |-> mtime]

\* names[code] || code.toUpperCase(), for a code that is a string
getLanguageName(code) == IF code = "fr-FR" THEN "French (France)" ELSE code

IsTruthy(field) == field.kind # "absent"

\* transformLegacyConfig(rawConfig): the configuration, or the TypeError of
\* a property read on null, of .map on something that is no array, of
\* toUpperCase on something that is no string
transformLegacyConfig(rawConfig) ==
  IF rawConfig.kind = "null" THEN [threw |-> TRUE, config |-> rawConfig]
  ELSE IF rawConfig.kind # "config" THEN [threw |-> FALSE, config |-> rawConfig]
  ELSE IF ~(/\ IsTruthy(rawConfig.templates)
            /\ IsTruthy(rawConfig.languages)
            /\ rawConfig.name = "")
  THEN [threw |-> FALSE, config |-> rawConfig]
  ELSE LET ts == rawConfig.templates.items
           ls == rawConfig.languages.items
       IN
       IF \/ rawConfig.templates.kind # "array"
          \/ \E i \in 1..Len(ts) : ts[i].kind = "null"
          \/ rawConfig.languages.kind # "array"
          \/ \E i \in 1..Len(ls) : ls[i].kind # "string"
       THEN [threw |-> TRUE, config |-> rawConfig]
       ELSE [threw |-> FALSE,
             config |->
               [kind |-> "config", name |-> "Auth0 Email Templates",
                templates |-> ArrayOf(ts),
                languages |->
                  ArrayOf([i \in 1..Len(ls) |->
                             LanguageEntry(ls[i].text,
                                           getLanguageName(ls[i].text))])]]

\* a property of an entry that is an object, undefined for a string
Field(entry, name) == IF entry.kind = "object" THEN entry[name] ELSE ""

\* names.filter((name, index) => names.indexOf(name) !== index).length > 0
HasDuplicates(names) ==
  \E i, j \in 1..Len(names) : i < j /\ names[i] = names[j]

\* validateConfiguration(config): the result, or the TypeError of a
\* property read on an entry that is null
validateConfiguration(config) ==
  IF config.kind # "config"
  THEN [threw |-> FALSE, valid |-> FALSE,
        errors |-> { "Configuration must be an object" }]
  ELSE
  LET arrays ==
        (IF config.templates.kind # "array"
         THEN { "Configuration must have a \"templates\" array" } ELSE {})
        \cup (IF config.languages.kind # "array"
              THEN { "Configuration must have a \"languages\" array" }
              ELSE {})
      ts == config.templates.items
      ls == config.languages.items
  IN
  IF arrays # {} THEN [threw |-> FALSE, valid |-> FALSE, errors |-> arrays]
  ELSE IF \/ \E i \in 1..Len(ts) : ts[i].kind = "null"
          \/ \E i \in 1..Len(ls) : ls[i].kind = "null"
  THEN [threw |-> TRUE, valid |-> FALSE, errors |-> {}]
  ELSE
  LET errors ==
        { "name is required" : i \in { j \in 1..Len(ts) : ts[j].name = "" } }
        \cup { "from is required" :
                 i \in { j \in 1..Len(ts) : ts[j].from = "" } }
        \cup { "subjectKey is required" :
                 i \in { j \in 1..Len(ts) : ts[j].subjectKey = "" } }
        \cup { "code is required" :
                 i \in { j \in 1..Len(ls) : Field(ls[j], "code") = "" } }
        \cup { "name is required" :
                 i \in { j \in 1..Len(ls) : Field(ls[j], "name") = "" } }
        \cup (IF HasDuplicates([i \in 1..Len(ts) |-> ts[i].name])
              THEN { "Duplicate template names" } ELSE {})
        \cup (IF HasDuplicates([i \in 1..Len(ls) |-> Field(ls[i], "code")])
              THEN { "Duplicate language codes" } ELSE {})
  IN [threw |-> FALSE, valid |-> errors = {}, errors |-> errors]

\* a loader that would take the configuration as it is
Unvalidated(validation) == TRUE

\* `if (!validation.valid) throw`
Validated(validation) == validation.valid

\* a catch that would throw the error on as it came
ThrownAsIs(error) == error

\* the catch of loadConfiguration: a SyntaxError becomes a
\* ConfigurationError, a ConfigurationError is thrown on, anything else is
\* wrapped in a ConfigurationError
ThrownFromCatch(error) ==
  IF error = "SyntaxError" THEN "ConfigurationError"
  ELSE IF error = "ConfigurationError" THEN error
  ELSE "ConfigurationError"

ConfigFailed(error, message, cache) ==
  [ok |-> FALSE, error |-> ThrownFromCatch(error), message |-> message,
   config |-> JsonNull, fromCache |-> FALSE, cache |-> cache]

ConfigReturned(config, fromCache, cache) ==
  [ok |-> TRUE, error |-> "none", message |-> "none", config |-> config,
   fromCache |-> fromCache, cache |-> cache]

\* loadConfiguration(configPath) with the file and the cache entry of the
\* path; readOk is whether fs.readFile succeeds
loadConfiguration(file, cache, readOk) ==
  IF cache.cached /\ ~file.exists
  THEN ConfigFailed("Error", "Failed to load configuration", cache)
  ELSE IF cache.cached /\ file.mtime <= cache.mtime
  THEN ConfigReturned(cache.config, TRUE, cache)
  ELSE IF ~file.exists
  THEN ConfigFailed("ConfigurationError", "Configuration file not found",
                    cache)
  ELSE IF ~readOk
  THEN ConfigFailed("Error", "Failed to load configuration", cache)
  ELSE IF ~file.parses
  THEN ConfigFailed("SyntaxError", "Invalid JSON in configuration file",
                    cache)
  ELSE
  LET t == transformLegacyConfig(file.raw) IN
  IF t.threw
  THEN ConfigFailed("TypeError", "Failed to load configuration", cache)
  ELSE
  LET validation == validateConfiguration(t.config) IN
  IF validation.threw
  THEN ConfigFailed("TypeError", "Failed to load configuration", cache)
  ELSE IF ~Validated(validation)
  THEN ConfigFailed("ConfigurationError", "Configuration validation failed",
                    cache)
  ELSE ConfigReturned(t.config, FALSE, CachedConfig(t.config, file.mtime))

ConfigCall(op, outcome) == outcome @@ [op |-> op]

NoConfigCall == ConfigCall("none", ConfigFailed("none", "none", NoCachedConfig))

LoadConfiguration(readOk) ==
  /\ \E r \in { loadConfiguration(configFile, configCache, readOk) } :
       /\ configCache' = r.cache
       /\ configLoaded' = ConfigCall("loadConfiguration", r)
  /\ UNCHANGED <<configFile, configEdits>>

\* invalidateCache(configPath)
InvalidateConfigCache ==
  /\ configCache' = NoCachedConfig
  /\ configLoaded' =
       ConfigCall("invalidateCache",
                  ConfigFailed("none", "none", NoCachedConfig))
  /\ UNCHANGED <<configFile, configEdits>>

\* the files an editor leaves in place of the configuration: none, one
\* that is no JSON, a valid one, one without languages
EditedConfigs(mtime) ==
  { NoConfigFile, BrokenConfigFile(mtime),
    ConfigFile([kind |-> "config", name |-> "Auth0 Email Templates",
                templates |-> ArrayOf(<<>>),
                languages |-> ArrayOf(<<LanguageEntry("fr-FR", "French")>>)],
               mtime),
    ConfigFile([kind |-> "config", name |-> "Auth0 Email Templates",
                templates |-> ArrayOf(<<>>), languages |-> Absent], mtime) }

\* the file is replaced or removed; a new file carries a later time, or
\* the time of the file it replaces
WriteConfigFile(file) ==
  /\ configEdits < MaxConfigEdits
  /\ configFile' = file
  /\ configEdits' = configEdits + 1
  /\ configLoaded' =
       ConfigCall("writeFile", ConfigFailed("none", "none", NoCachedConfig))
  /\ UNCHANGED configCache

-----------------------------------------------------------------------------
(* Specifications *)

NoResolve ==
  Threw("none", "", <<>>) @@ [op |-> "none", key |-> "", again |-> FALSE]

\* no loader has been constructed
InitNoLoader ==
  /\ languageFiles = [c \in LangCodes |-> NoLanguageFile]
  /\ loaderCatalogs = [l \in LoaderNames |-> [c \in LangCodes |-> NoCatalog]]
  /\ loaded = NoLoad
  /\ edits = 0

\* no template has been read
InitNoTemplate ==
  /\ template = <<>>
  /\ rendered = NoRender

\* no build has been asked for
InitNoBuild ==
  /\ buildConfig = <<>>
  /\ build = [BuildStarted EXCEPT !.pc = "none"]

\* no configuration loader has been constructed
InitNoConfig ==
  /\ configFile = NoConfigFile
  /\ configCache = NoCachedConfig
  /\ configLoaded = NoConfigCall
  /\ configEdits = 0
  /\ lastSet = NeverSet
  /\ inFlight = NoneInFlight
  /\ removed = NothingRemoved
  /\ InitNoUtility

InitCache ==
  /\ strategy \in Strategies
  /\ now = 0
  /\ memoryCache = <<>>
  /\ currentMemorySize = 0
  /\ disk = [f \in Files |-> NoFile]
  /\ sweepAt = -1
  /\ hung = FALSE
  /\ ops = 0
  /\ ticks = 0
  /\ faults = 0
  /\ last = NoCall
  /\ lastAdded = 0

Init ==
  /\ InitCache
  /\ languages = <<>>
  /\ resources = [c \in ResourceNames |-> NoResource]
  /\ i18nCatalogs = <<>>
  /\ resolved = NoResolve
  /\ InitNoLoader
  /\ InitNoTemplate
  /\ InitNoBuild
  /\ InitNoConfig

Next ==
  \/ \E k \in Keys, d \in Data, ttl \in TTLs, ok \in DiskOutcomes :
       Set(k, d, ttl, ok) /\ UNCHANGED <<resolveVars, loaderVars, pipelineVars>>
  \/ \E k \in Keys, ok \in DiskOutcomes :
       Get(k, ok) /\ UNCHANGED <<resolveVars, loaderVars, pipelineVars>>
  \/ \E k \in Keys, ok \in DiskOutcomes :
       Delete(k, ok) /\ UNCHANGED <<resolveVars, loaderVars, pipelineVars>>
  \/ \E ok \in DiskOutcomes : Clear(ok) /\ UNCHANGED <<resolveVars, loaderVars, pipelineVars>>
  \/ Cleanup /\ UNCHANGED <<resolveVars, loaderVars, pipelineVars>>
  \/ \E d \in TickSteps : Tick(d) /\ UNCHANGED <<resolveVars, loaderVars, pipelineVars>>

\* the cache service under sequential callers
Spec == Init /\ [][Next]_vars

InitResolve ==
  /\ InitCache /\ strategy = "memory"
  /\ languages \in LanguageLists
  /\ resources \in [ResourceNames -> Catalogs \cup {NoResource}]
  /\ i18nCatalogs = LoadedCatalogs(languages, resources)
  /\ resolved = NoResolve
  /\ InitNoLoader
  /\ InitNoTemplate
  /\ InitNoBuild
  /\ InitNoConfig

NextResolve ==
  \/ \E k \in MessageKeys :
       LocalizeMessage(k) /\ UNCHANGED <<cacheVars, loaderVars, pipelineVars>>
  \/ \E k \in MessageKeys : Main(k) /\ UNCHANGED <<cacheVars, loaderVars, pipelineVars>>
  \/ \E k \in MessageKeys :
       GenerateLiquidConditions(k) /\ UNCHANGED <<cacheVars, loaderVars, pipelineVars>>

\* the two resolvers over every configuration and every set of catalogs
SpecResolve == InitResolve /\ [][NextResolve]_vars

\* two loaders over one cache service, each resource absent or well-formed
\* at the start
InitLoader ==
  /\ strategy \in Strategies
  /\ now = 0
  /\ memoryCache = <<>>
  /\ currentMemorySize = 0
  /\ disk = [f \in LoaderFiles |-> NoFile]
  /\ sweepAt = -1
  /\ hung = FALSE
  /\ ops = 0
  /\ ticks = 0
  /\ faults = 0
  /\ last = NoCall
  /\ lastAdded = 0
  /\ languages = <<>>
  /\ resources = [c \in ResourceNames |-> NoResource]
  /\ i18nCatalogs = <<>>
  /\ resolved = NoResolve
  /\ languageFiles \in [LangCodes -> {InitialFile, NoLanguageFile}]
  /\ loaderCatalogs = [l \in LoaderNames |-> [c \in LangCodes |-> NoCatalog]]
  /\ loaded = NoLoad
  /\ edits = 0
  /\ InitNoTemplate
  /\ InitNoBuild
  /\ InitNoConfig

NextLoader ==
  \/ \E l \in LoaderNames, c \in LangCodes, io \in LoadOutcomes :
       LoadLanguage(l, c, io) /\ UNCHANGED <<resolveVars, pipelineVars>>
  \/ \E l \in LoaderNames, c \in LangCodes, failed \in DeleteOutcomes :
       InvalidateCache(l, c, failed) /\ UNCHANGED <<resolveVars, pipelineVars>>
  \/ \E l \in LoaderNames, failed \in DeleteOutcomes :
       InvalidateAll(l, failed) /\ UNCHANGED <<resolveVars, pipelineVars>>
  \/ \E c \in LangCodes, f \in FileContents(now) \cup {NoLanguageFile} :
       WriteLanguageFile(c, f) /\ UNCHANGED <<resolveVars, pipelineVars>>
  \/ \E d \in LoaderTickSteps :
       LoaderTick(d) /\ UNCHANGED <<resolveVars, loaderVars, pipelineVars>>

\* the catalog loaders of two commands over one cache service
SpecLoader == InitLoader /\ [][NextLoader]_vars

\* the configurations a template is generated under: fr-FR alone or before
\* en-US, fr-FR with every message key, en-US with or without them
TemplateConfigs ==
  { [languages |-> L, resources |-> R] :
      L \in { <<"fr-FR">>, <<"fr-FR", "en-US">> },
      R \in { [c \in ResourceNames |->
                IF c = "fr-FR"
                THEN [exists |-> TRUE,
                      entries |-> [k \in MessageKeys |-> "Bienvenue"]]
                ELSE IF c = "en-US" THEN e ELSE NoResource] :
              e \in { [exists |-> TRUE,
                       entries |-> [k \in MessageKeys |-> "Welcome"]],
                      [exists |-> TRUE, entries |-> <<>>] } } }

InitTemplate ==
  /\ InitCache /\ strategy = "memory"
  /\ \E c \in TemplateConfigs :
       /\ languages = c.languages
       /\ resources = c.resources
       /\ i18nCatalogs = LoadedCatalogs(c.languages, c.resources)
  /\ resolved = NoResolve
  /\ InitNoLoader
  /\ template \in Templates
  /\ rendered = NoRender
  /\ InitNoBuild
  /\ InitNoConfig

NextTemplate ==
  \/ \E throwing \in SUBSET TemplateKeys :
       ProcessTemplate(throwing)
         /\ UNCHANGED notTemplateVars
  \/ ReadTemplate /\ UNCHANGED notTemplateVars
  \/ \E k \in TemplateKeys :
       WriteConfiguration(k)
         /\ UNCHANGED notTemplateVars
  \/ \E k \in TemplateKeys :
       GenerateTemplate(k)
         /\ UNCHANGED notTemplateVars

\* the template engine and the strict pipeline over every template
SpecTemplate == InitTemplate /\ [][NextTemplate]_vars

\* a build command over a fresh cache service, each resource absent or
\* well-formed
InitBuild ==
  /\ strategy \in Strategies
  /\ now = 0
  /\ memoryCache = <<>>
  /\ currentMemorySize = 0
  /\ disk = [f \in LoaderFiles |-> NoFile]
  /\ sweepAt = -1
  /\ hung = FALSE
  /\ ops = 0
  /\ ticks = 0
  /\ faults = 0
  /\ last = NoCall
  /\ lastAdded = 0
  /\ languages = <<>>
  /\ resources = [c \in ResourceNames |-> NoResource]
  /\ i18nCatalogs = <<>>
  /\ resolved = NoResolve
  /\ languageFiles \in [LangCodes -> {InitialFile, NoLanguageFile}]
  /\ loaderCatalogs = [l \in LoaderNames |-> [c \in LangCodes |-> NoCatalog]]
  /\ loaded = NoLoad
  /\ edits = 0
  /\ InitNoTemplate
  /\ buildConfig \in BuildConfigs
  /\ build = BuildStarted
  /\ InitNoConfig

NextBuild ==
  \/ \E io \in LoadOutcomes :
       BuildInitialize(io) /\ UNCHANGED besideBuildVars
  \/ \E io \in LoadOutcomes :
       BuildLoad(io) /\ UNCHANGED besideBuildVars
  \/ BuildSkip /\ UNCHANGED besideBuildVars
  \/ \E templatesOk \in BOOLEAN :
       BuildTemplates(templatesOk) /\ UNCHANGED besideBuildVars

\* one execution of the build command
SpecBuild == InitBuild /\ [][NextBuild]_vars

\* a new loader and a configuration file of any content, or none
InitConfig ==
  /\ InitCache /\ strategy = "memory"
  /\ languages = <<>>
  /\ resources = [c \in ResourceNames |-> NoResource]
  /\ i18nCatalogs = <<>>
  /\ resolved = NoResolve
  /\ InitNoLoader
  /\ InitNoTemplate
  /\ InitNoBuild
  /\ configFile \in { NoConfigFile, BrokenConfigFile(0) }
                      \cup { ConfigFile(raw, 0) : raw \in RawConfigs }
  /\ configCache = NoCachedConfig
  /\ configLoaded = NoConfigCall
  /\ configEdits = 0
  /\ lastSet = NeverSet
  /\ inFlight = NoneInFlight
  /\ removed = NothingRemoved
  /\ InitNoUtility

NextConfig ==
  \/ \E readOk \in BOOLEAN :
       LoadConfiguration(readOk)
         /\ UNCHANGED notConfigVars
  \/ InvalidateConfigCache
       /\ UNCHANGED notConfigVars
  \/ \E mtime \in { IF configFile.exists THEN configFile.mtime ELSE 0, 1 } :
     \E file \in EditedConfigs(mtime) :
       WriteConfigFile(file)
         /\ UNCHANGED notConfigVars

\* one configuration loader and the file it reads
SpecConfig == InitConfig /\ [][NextConfig]_vars

\* the keys of the restart runs: no two of them share a file
RestartKeys == { k \in Keys : k # <<"a", "_", "b">> }

NextRestart ==
  \/ \E k \in RestartKeys, ttl \in TTLs :
       /\ Set(k, <<>>, ttl, TRUE)
       /\ lastSet' = Recorded(lastSet, k, ttl, now)
       /\ UNCHANGED <<resolveVars, loaderVars, templateVars, buildVars,
                      configVars, inFlight, removed, utilityVars>>
  \/ \E k \in RestartKeys :
       Get(k, TRUE) /\ UNCHANGED <<resolveVars, loaderVars, pipelineVars>>
  \/ \E k \in RestartKeys :
       Delete(k, TRUE) /\ UNCHANGED <<resolveVars, loaderVars, pipelineVars>>
  \/ Cleanup /\ UNCHANGED <<resolveVars, loaderVars, pipelineVars>>
  \/ \E d \in TickSteps : Tick(d) /\ UNCHANGED <<resolveVars, loaderVars, pipelineVars>>
  \/ Restart /\ UNCHANGED <<resolveVars, loaderVars, pipelineVars>>

\* the cache service over a directory that outlives the process, disk
\* calls succeeding, with the history of the sets
SpecRestart == Init /\ [][NextRestart]_vars

NextInFlight ==
  \/ \E k \in RestartKeys, ttl \in TTLs :
       /\ Set(k, <<>>, ttl, TRUE)
       /\ removed' = [removed EXCEPT ![k] = FALSE]
       /\ UNCHANGED <<resolveVars, loaderVars, templateVars, buildVars,
                      configVars, lastSet, inFlight, utilityVars>>
  \/ \E k \in RestartKeys :
       Get(k, TRUE) /\ UNCHANGED <<resolveVars, loaderVars, pipelineVars>>
  \/ \E k \in RestartKeys :
       GetBegin(k) /\ UNCHANGED <<resolveVars, loaderVars, templateVars,
                                  buildVars, configVars, utilityVars>>
  \/ GetRead /\ UNCHANGED <<resolveVars, loaderVars, templateVars,
                            buildVars, configVars, utilityVars>>
  \/ GetEnd /\ UNCHANGED <<resolveVars, loaderVars, templateVars,
                           buildVars, configVars, utilityVars>>
  \/ \E k \in RestartKeys :
       /\ Delete(k, TRUE)
       /\ removed' = [removed EXCEPT ![k] = TRUE]
       /\ UNCHANGED <<resolveVars, loaderVars, templateVars, buildVars,
                      configVars, lastSet, inFlight, utilityVars>>
  \/ /\ Clear(TRUE)
     /\ removed' = [k \in Keys |-> TRUE]
     /\ UNCHANGED <<resolveVars, loaderVars, templateVars, buildVars,
                    configVars, lastSet, inFlight, utilityVars>>
  \/ Cleanup /\ UNCHANGED <<resolveVars, loaderVars, pipelineVars>>
  \/ \E d \in TickSteps : Tick(d) /\ UNCHANGED <<resolveVars, loaderVars, pipelineVars>>
  \/ /\ inFlight.pc = "none"
     /\ Restart /\ UNCHANGED <<resolveVars, loaderVars, pipelineVars>>

\* the cache service with one get that waits for its disk read while other
\* calls run, disk calls succeeding
SpecInFlight == Init /\ [][NextInFlight]_vars

InitCompleteness ==
  /\ InitCache /\ strategy = "memory"
  /\ languages = <<>>
  /\ resources = [c \in ResourceNames |-> NoResource]
  /\ i18nCatalogs = <<>>
  /\ resolved = NoResolve
  /\ InitNoLoader
  /\ InitNoTemplate
  /\ InitNoBuild
  /\ configFile = NoConfigFile
  /\ configCache = NoCachedConfig
  /\ configLoaded = NoConfigCall
  /\ configEdits = 0
  /\ lastSet = NeverSet
  /\ inFlight = NoneInFlight
  /\ removed = NothingRemoved
  /\ catalogEntries \in { c \in CatalogShapes :
                            TotalEntries(c) <= MaxCatalogEntries }
  /\ completeness = NoCompleteness
  /\ i18nResolved = NoI18nResolve
  /\ InitNoPool

NextCompleteness ==
  CalculateCompleteness
    /\ UNCHANGED <<cacheVars, resolveVars, loaderVars, templateVars,
                   buildVars, configVars, historyVars>>

\* calculateCompleteness over catalogs of every size up to MaxCatalogEntries
SpecCompleteness == InitCompleteness /\ [][NextCompleteness]_vars

\* what <code>.json holds at the start: nothing, no key, or the key with
\* the message of its language
I18nFiles(languageCode) ==
  { NoLanguageFile, LanguageFile(TRUE, <<>>, 0),
    LanguageFile(TRUE,
                 [k \in MessageKeys |->
                    IF languageCode = <<"f", "r">> THEN "Bienvenue"
                    ELSE "Welcome"], 0) }

InitI18n ==
  /\ strategy \in Strategies
  /\ now = 0
  /\ memoryCache = <<>>
  /\ currentMemorySize = 0
  /\ disk = [f \in LoaderFiles |-> NoFile]
  /\ sweepAt = -1
  /\ hung = FALSE
  /\ ops = 0
  /\ ticks = 0
  /\ faults = 0
  /\ last = NoCall
  /\ lastAdded = 0
  /\ languages = <<>>
  /\ resources = [c \in ResourceNames |-> NoResource]
  /\ i18nCatalogs = <<>>
  /\ resolved = NoResolve
  /\ languageFiles \in { f \in [LangCodes -> UNION { I18nFiles(c) :
                                                      c \in LangCodes }] :
                           \A c \in LangCodes : f[c] \in I18nFiles(c) }
  /\ loaderCatalogs = [l \in LoaderNames |-> [c \in LangCodes |-> NoCatalog]]
  /\ loaded = NoLoad
  /\ edits = 0
  /\ InitNoTemplate
  /\ InitNoBuild
  /\ InitNoConfig

NextI18n ==
  \/ \E c \in LangCodes :
       /\ LoadLanguage("build", c, [get |-> TRUE, set |-> TRUE])
       /\ UNCHANGED <<resolveVars, pipelineVars>>
  \/ \E k \in MessageKeys, c \in LangCodes,
        f \in LangCodes \cup {NoLanguage} :
       /\ Resolve(k, c, f)
       /\ UNCHANGED <<resolveVars, templateVars, buildVars, configVars,
                      historyVars>>

\* one I18nService: catalogs are loaded through the cache and keys resolved
SpecI18n == InitI18n /\ [][NextI18n]_vars

InitPool ==
  /\ InitCache /\ strategy = "memory"
  /\ languages = <<>>
  /\ resources = [c \in ResourceNames |-> NoResource]
  /\ i18nCatalogs = <<>>
  /\ resolved = NoResolve
  /\ InitNoLoader
  /\ InitNoTemplate
  /\ InitNoBuild
  /\ configFile = NoConfigFile
  /\ configCache = NoCachedConfig
  /\ configLoaded = NoConfigCall
  /\ configEdits = 0
  /\ lastSet = NeverSet
  /\ inFlight = NoneInFlight
  /\ removed = NothingRemoved
  /\ catalogEntries = [v \in EntryValues |-> 0]
  /\ completeness = NoCompleteness
  /\ i18nResolved = NoI18nResolve
  /\ maxWorkers \in 1..MaxPoolWorkers
  /\ workers = <<>>
  /\ taskQueue = <<>>
  /\ tasks = [t \in TaskIds |-> NewTask]
  /\ immediates = 0
  /\ started = <<>>

\* the promise of execute(t) settles: the task ends or its timer fires
Settle(t) ==
  \/ \E outcome \in {"result", "error"} : Complete(t, outcome)
  \/ Timeout(t)

NextPool ==
  \/ Execute
  \/ ProcessQueue
  \/ \E t \in TaskIds, outcome \in {"result", "error"} : Complete(t, outcome)
  \/ \E t \in TaskIds : Timeout(t)
  \/ \E t \in TaskIds : LateEnd(t)

\* one worker pool under every order of submissions, ends and timeouts
SpecPool == InitPool /\ [][NextPool]_vars

\* the same, where the event loop runs every scheduled callback and every
\* race is decided, by the task or by its timer
SpecPoolLive ==
  /\ InitPool /\ [][NextPool]_vars
  /\ WF_vars(ProcessQueue)
  /\ \A t \in TaskIds : WF_vars(Settle(t))

-----------------------------------------------------------------------------
(* Properties of the cache store *)

\* a handler ran in this step
Stepped == ops' = ops + 1

\* a get of the key just set, before ttl seconds have passed
RoundTripCase ==
  /\ Stepped
  /\ last.op = "set" /\ last.completed /\ last.ttl > 0
  /\ last'.op = "get" /\ last'.key = last.key
  /\ (now - last.at) < last.ttl * MsPerSecond

\* C1 as stated: a get(k) right after a completed set(k, v, ttl), ttl > 0,
\* returns v, under every strategy and whatever the store held
C1_RoundTripAlways ==
  [][RoundTripCase => last'.result = Found(last.data)]_vars

\* C1 amended: a get(k) right after a completed set(k, v, ttl), ttl > 0,
\* returns v, also when the set evicted other entries, unless the strategy is
\* disk-only and the disk write of the set or the disk read of the get
\* failed
C1_RoundTrip ==
  [][RoundTripCase /\ (strategy = "disk" => last.ioOk /\ last'.ioOk)
       => last'.result = Found(last.data)]_vars

C1_Witness ==
  last.op = "get" /\ last.afterEvict /\ last.result.found

\* C2: in the memory tier an entry is expired exactly when
\* now - timestamp >= ttl * 1000; a get returns the data of an unexpired
\* entry and leaves it alone; a get of an expired entry removes it from the
\* map, subtracts its size from the counter, and answers not-found under
\* the memory strategy
C2_MemoryExpiry ==
  [][\A k \in Keys :
       (/\ Stepped /\ last'.op = "get" /\ last'.key = k
        /\ strategy # "disk" /\ IndexOf(memoryCache, k) > 0)
       => LET i == IndexOf(memoryCache, k)
              e == memoryCache[i]
          IN IF (now - e.timestamp) >= e.ttl * 1000
             THEN /\ strategy = "memory" => last'.result = NotFound
                  /\ last'.result = NotFound =>
                       /\ memoryCache' = RemoveAt(memoryCache, i)
                       /\ currentMemorySize' = currentMemorySize - e.size
             ELSE /\ last'.result = Found(e.data)
                  /\ memoryCache' = memoryCache
                  /\ currentMemorySize' = currentMemorySize]_vars

C2_Witness ==
  /\ strategy = "memory"
  /\ last.op = "get" /\ last.memExpired /\ last.result = NotFound
  /\ currentMemorySize = 0

\* C3: the counter reported by getStats equals the sum of the sizes of the
\* entries in the memory map, in every reachable state
C3_SizeAccounting == currentMemorySize = SumSizes(memoryCache)

\* the map an insertion starts its eviction loop from: in a get, the
\* expired entry of the key has been dropped before
MapBeforeInsert(key) ==
  IF last'.op = "get" /\ IndexOf(memoryCache, key) > 0
  THEN RemoveAt(memoryCache, IndexOf(memoryCache, key))
  ELSE memoryCache

CounterBeforeInsert(key) ==
  IF last'.op = "get" /\ IndexOf(memoryCache, key) > 0
  THEN currentMemorySize - memoryCache[IndexOf(memoryCache, key)].size
  ELSE currentMemorySize

\* C4: entries are evicted one at a time in ascending timestamp order: no
\* entry is evicted while an entry with a strictly smaller timestamp is
\* still in the map; an entry is evicted only while the counter plus the
\* new size exceeds the maximum, and the insertion happens once it fits or
\* the map is empty; a get that hits does not touch the map
C4_EvictionOrder ==
  [][/\ (Stepped /\ (last'.evicted # <<>> \/ last'.added)) =>
          LET ev == last'.evicted
              n == Len(ev)
              pre == MapBeforeInsert(last'.key)
              base == CounterBeforeInsert(last'.key)
              gone(j) == { ev[m].key : m \in 1..j }
          IN /\ \A j \in 1..n : \E x \in 1..Len(pre) : pre[x] = ev[j]
             /\ \A j \in 1..n : \A x \in 1..Len(pre) :
                  pre[x].key \notin gone(j)
                    => pre[x].timestamp >= ev[j].timestamp
             /\ last'.added =>
                  /\ n > 0 => base - SumSizes(SubSeq(ev, 1, n - 1))
                                + lastAdded' > MaxSizeBytes
                  /\ \/ base - SumSizes(ev) + lastAdded' <= MaxSizeBytes
                     \/ n = Len(pre)
     /\ (Stepped /\ last'.op = "get" /\ last'.memHit)
          => memoryCache' = memoryCache]_vars

\* two entries were evicted by one set, the older one first
C4_Witness ==
  /\ last.op = "set" /\ last.completed /\ Len(last.evicted) = 2
  /\ last.evicted[1].timestamp < last.evicted[2].timestamp

\* C5: the counter never exceeds the configured maximum plus the size of
\* the entry most recently added to the map
C5_CapacityBound == currentMemorySize <= MaxSizeBytes + lastAdded

\* over the maximum, after a replaced key has made the counter drift
C5_Witness ==
  /\ currentMemorySize > MaxSizeBytes
  /\ currentMemorySize > SumSizes(memoryCache)

\* C11: under the hybrid strategy, once a set has completed, the memory
\* tier and the disk tier hold the same data and ttl for the key written,
\* also when the disk write failed
C11_HybridWriteConsistency ==
  (strategy = "hybrid" /\ last.op = "set" /\ last.completed) =>
    LET i == IndexOf(memoryCache, last.key)
        f == disk[getDiskPath(last.key)]
    IN /\ i > 0 /\ f.exists
       /\ JsonParse(f.data) = memoryCache[i].data
       /\ f.ttl = memoryCache[i].ttl

\* the file of key k holds an entry that is unexpired at the clock reading
UnexpiredOnDisk(k) ==
  /\ disk[getDiskPath(k)].exists
  /\ (now - disk[getDiskPath(k)].timestamp)
       < disk[getDiskPath(k)].ttl * MsPerSecond

\* C12: a hybrid get answers from an unexpired memory entry without going to
\* disk; on a memory miss with an unexpired, readable disk entry a get that
\* returns answers the disk data and leaves that entry in the map, and the
\* next get of the key at that instant is answered from the map; under the
\* memory strategy get never goes to disk; under the disk strategy get
\* neither reads the map nor puts anything into it
C12_HybridReadPath ==
  [][(Stepped /\ last'.op = "get") =>
       LET k == last'.key
           i == IndexOf(memoryCache, k)
           inMemory == i > 0 /\ (now - memoryCache[i].timestamp)
                                  < memoryCache[i].ttl * MsPerSecond
           f == disk[getDiskPath(k)]
           j == IndexOf(memoryCache', k)
       IN /\ (strategy = "hybrid" /\ inMemory) =>
               /\ last'.result = Found(memoryCache[i].data)
               /\ ~last'.diskRead
          /\ (/\ strategy = "hybrid" /\ ~inMemory /\ UnexpiredOnDisk(k)
              /\ last'.ioOk /\ last'.completed) =>
               /\ last'.diskRead
               /\ last'.result = Found(JsonParse(f.data))
               /\ j > 0
               /\ memoryCache'[j].data = JsonParse(f.data)
               /\ memoryCache'[j].ttl = f.ttl
               /\ (now' - memoryCache'[j].timestamp)
                    < memoryCache'[j].ttl * MsPerSecond
          /\ (/\ last.op = "get" /\ last.added /\ last.key = k
              /\ now = last.at) =>
               /\ last'.memHit /\ ~last'.diskRead
               /\ last'.result = last.result
          /\ strategy = "memory" => ~last'.diskRead
          /\ strategy = "disk" =>
               /\ ~last'.memHit /\ last'.diskRead
               /\ memoryCache = <<>> /\ memoryCache' = <<>>
               /\ (UnexpiredOnDisk(k) /\ last'.ioOk)
                    => last'.result = Found(JsonParse(f.data))]_vars

\* a hybrid get answered from the map, right after the get that copied the
\* entry there from disk
C12_Witness ==
  /\ strategy = "hybrid"
  /\ last.op = "get" /\ last.memHit /\ last.result.found
  /\ disk[getDiskPath(last.key)].exists
  /\ \E i \in 1..Len(memoryCache) :
       /\ memoryCache[i].key = last.key
       /\ memoryCache[i].timestamp > disk[getDiskPath(last.key)].timestamp

\* C13: an I/O failure of the disk tier during get, set, delete or clear
\* never reaches the caller: the handler completes, and a get answers
\* not-found
C13_DiskFailuresAbsorbed ==
  (last.op \in {"get", "set", "delete", "clear"} /\ ~last.ioOk) =>
    /\ ~last.threw
    /\ last.completed
    /\ last.op = "get" => last.result = NotFound

\* a hybrid get whose disk read failed while the file held an unexpired
\* entry
C13_Witness ==
  /\ strategy = "hybrid"
  /\ last.op = "get" /\ ~last.ioOk /\ last.result = NotFound
  /\ UnexpiredOnDisk(last.key)

\* what the tiers hold for key k: its entry in the map, the file it is
\* read from
InMemory(mem, k) == IF IndexOf(mem, k) > 0 THEN mem[IndexOf(mem, k)] ELSE NoFile

OnDisk(dsk, k) == dsk[getDiskPath(k)]

\* C17: a delete(k) whose disk call succeeds removes k's entry, leaves
\* every other key's entry, data, ttl and timestamp in both tiers as they
\* were, and lowers the counter by exactly the size of the entry removed
\* from the map
C17_DeleteFrame ==
  [][(Stepped /\ last'.op = "delete" /\ last'.ioOk) =>
       LET k == last'.key IN
       /\ IndexOf(memoryCache', k) = 0
       /\ strategy # "memory" => ~OnDisk(disk', k).exists
       /\ \A k2 \in Keys \ {k} :
            /\ InMemory(memoryCache', k2) = InMemory(memoryCache, k2)
            /\ OnDisk(disk', k2) = OnDisk(disk, k2)
       /\ currentMemorySize' =
            currentMemorySize
              - (IF IndexOf(memoryCache, k) > 0
                 THEN memoryCache[IndexOf(memoryCache, k)].size ELSE 0)]_vars

\* C18: after a clear() whose disk call succeeds the map is empty and the
\* counter zero, and a get finds nothing for a key that has not been set
\* since: neither right after the clear nor after the set of another key
C18_ClearRemovesAll ==
  [][/\ (Stepped /\ last'.op = "clear" /\ last'.ioOk)
          => memoryCache' = <<>> /\ currentMemorySize' = 0
     /\ (Stepped /\ last.op = "clear" /\ last.ioOk /\ last'.op = "get")
          => last'.result = NotFound
     /\ (/\ Stepped /\ last.op = "set" /\ last.afterClear
         /\ last'.op = "get" /\ last'.key # last.key)
          => last'.result = NotFound]_vars

\* C19: a set of the key just set replaces the whole entry: the map keeps
\* its number of entries, the key's entry carries the second data and ttl
\* and the clock reading of the second set, and a get at that instant
\* returns the second data
C19_ReplaceSemantics ==
  [][(/\ Stepped /\ strategy # "disk"
      /\ last.op = "set" /\ last.completed
      /\ last'.op = "set" /\ last'.completed /\ last'.key = last.key) =>
       LET e == InMemory(memoryCache', last'.key) IN
       /\ Len(memoryCache') = Len(memoryCache)
       /\ e.data = last'.data /\ e.ttl = last'.ttl
       /\ e.timestamp = last'.at]_vars

-----------------------------------------------------------------------------
(* Properties of the catalog loader *)

Unusable(file) == ~file.exists \/ ~file.wellFormed

Registered(loader, languageCode) ==
  loaderCatalogs[loader][languageCode] # NoCatalog

\* some tier the strategy uses holds an unexpired entry under the key
CachedUnexpired(key) ==
  \/ /\ strategy # "disk"
     /\ IndexOf(memoryCache, key) > 0
     /\ Fresh(memoryCache[IndexOf(memoryCache, key)], now)
  \/ /\ strategy # "memory"
     /\ UnexpiredOnDisk(key)

InCache(key) ==
  \/ IndexOf(memoryCache, key) > 0
  \/ disk[getDiskPath(key)].exists

\* C14 as stated: a loadLanguage whose resource is absent or malformed
\* fails with LanguageNotFound, and then no catalog of the code is
\* registered in the loader and the cache holds nothing under its key
C14_LoadFailure ==
  (loaded.op = "loadLanguage" /\ Unusable(loaded.resource)) =>
    /\ ~loaded.ok /\ loaded.error = "LanguageNotFound"
    /\ ~Registered(loaded.loader, loaded.code)
    /\ ~InCache(CacheKeyOf(loaded.code))

\* C14 amended: loadLanguage fails, with LanguageNotFound, exactly when the
\* cache gives no catalog for the code and the resource is absent or
\* malformed; the cache gives none when no tier holds an unexpired entry,
\* and a catalog it gives is returned without a look at the resource; a
\* failing load leaves the registered catalogs as they were (one registered
\* earlier stays) and writes nothing to the cache under the code's key
C14_LoadFailureOnMiss ==
  [][(Stepped /\ loaded'.op = "loadLanguage") =>
       LET c == loaded'.code
           key == CacheKeyOf(c)
           file == languageFiles[c]
       IN /\ ~loaded'.ok <=> (~loaded'.cacheHit /\ Unusable(file))
          /\ ~CachedUnexpired(key) => ~loaded'.cacheHit
          /\ ~loaded'.ok =>
               /\ loaded'.error = "LanguageNotFound"
               /\ loaderCatalogs' = loaderCatalogs
               /\ disk' = disk
               /\ IndexOf(memoryCache', key) = 0]_vars

\* a load that failed on a malformed resource while the catalog of an
\* earlier load is still registered
C14_Witness ==
  /\ loaded.op = "loadLanguage" /\ ~loaded.ok
  /\ loaded.resource.exists /\ ~loaded.resource.wellFormed
  /\ Registered(loaded.loader, loaded.code)

\* C15: after invalidateCache(code) the loader holds no catalog for the
\* code, after invalidateCache() for no language, and the next loadLanguage
\* by that loader of an invalidated language reads the resource instead of
\* returning a cached catalog, under every strategy and with a cache service
\* shared with another loader
C15_Invalidation ==
  [][/\ (Stepped /\ loaded'.op = "invalidateCache")
          => loaderCatalogs'[loaded'.loader][loaded'.code] = NoCatalog
     /\ (Stepped /\ loaded'.op = "invalidateAll")
          => \A c \in LangCodes :
               loaderCatalogs'[loaded'.loader][c] = NoCatalog
     /\ (/\ Stepped /\ loaded'.op = "loadLanguage"
         /\ loaded'.loader = loaded.loader
         /\ \/ loaded.op = "invalidateAll"
            \/ loaded.op = "invalidateCache" /\ loaded.code = loaded'.code)
          => ~loaded'.cacheHit]_vars

\* C16: loadLanguage never returns a cached catalog whose resource was
\* modified after the catalog was cached
C16_CatalogFreshness ==
  (/\ loaded.op = "loadLanguage" /\ loaded.ok /\ loaded.cacheHit
   /\ loaded.resource.exists)
  => loaded.resource.mtime <= loaded.catalog[2].lastModified

-----------------------------------------------------------------------------
(* Properties of the resolvers *)

\* the text cut at every separator piece
RECURSIVE SplitAt(_, _)
SplitAt(s, sep) ==
  IF \E i \in 1..Len(s) : s[i] = sep
  THEN LET i == CHOOSE i \in 1..Len(s) :
                  s[i] = sep /\ \A j \in 1..(i - 1) : s[j] # sep
       IN <<SubSeq(s, 1, i - 1)>> \o SplitAt(SubSeq(s, i + 1, Len(s)), sep)
  ELSE <<s>>

Strict == resolved.op \in {"localizeMessage", "main"}

HasKey(l, k) == resources[l].exists /\ k \in DOMAIN resources[l].entries

HasMessage(l, k) == HasKey(l, k) /\ resources[l].entries[k] # ""

MessageOf(l, k) == Str(resources[l].entries[k])

IsIf(b, l, body) ==
  b = <<"{% if user.user_metadata.language == '", l, "' %}">> \o body

IsElsif(b, l, body) ==
  b = <<"{% elsif user.user_metadata.language == '", l, "' %}">> \o body

IsElse(b) ==
  Len(b) >= 2 /\ b[1] = "{% else %}" /\ b[Len(b)] = "{% endif %}"

ElseBody(b) == SubSeq(b, 2, Len(b) - 1)

IfBody(b) == SubSeq(b, 4, Len(b))

\* one if branch for L[0], one elsif branch per later language in list
\* order, one else branch, separated by newlines
BranchStructure ==
  LET lines == SplitAt(resolved.value, "\n")
      n == Len(languages)
  IN /\ resolved.ok
     /\ Len(lines) = n + 1
     /\ IsIf(lines[1], languages[1], MessageOf(languages[1], resolved.key))
     /\ \A i \in 2..n :
          IsElsif(lines[i], languages[i], MessageOf(languages[i], resolved.key))
     /\ IsElse(lines[n + 1])

\* C6 as stated: for a non-empty list and a key present in every language's
\* catalog, resolve succeeds with the |L| + 1 branches in order
C6_BranchesWheneverPresent ==
  (/\ Strict /\ languages # <<>>
   /\ \A i \in 1..Len(languages) : HasKey(languages[i], resolved.key))
  => BranchStructure

\* C6 amended: for a non-empty list and a key that has a non-empty value in
\* every language's catalog, resolve succeeds and returns exactly |L| + 1
\* branches joined by newlines: if L[0], elsif L[1..] in list order, else;
\* each if/elsif body is that language's value
C6_Branches ==
  (/\ Strict /\ languages # <<>>
   /\ \A i \in 1..Len(languages) : HasMessage(languages[i], resolved.key))
  => BranchStructure

C6_Witness ==
  /\ Strict /\ resolved.ok /\ Len(languages) = 3
  /\ Len(SplitAt(resolved.value, "\n")) = 4

\* C7: whenever resolve returns for a non-empty list, the body of the else
\* branch is L[0]'s value and equals the body of the if branch
C7_ElseIsFirstLanguage ==
  (Strict /\ resolved.ok /\ languages # <<>>) =>
    LET lines == SplitAt(resolved.value, "\n") IN
    /\ IsElse(lines[Len(lines)])
    /\ ElseBody(lines[Len(lines)]) = MessageOf(languages[1], resolved.key)
    /\ ElseBody(lines[Len(lines)]) = IfBody(lines[1])

\* fr-FR before en-US: if Bienvenue / elsif Welcome / else Bienvenue
C7_Witness ==
  /\ Strict /\ resolved.ok /\ languages = <<"fr-FR", "en-US">>
  /\ resolved.value =
       <<"{% if user.user_metadata.language == '", "fr-FR", "' %}", "Bienvenue",
         "\n",
         "{% elsif user.user_metadata.language == '", "en-US", "' %}", "Welcome",
         "\n",
         "{% else %}", "Bienvenue", "{% endif %}">>

\* C8 as stated: for a non-empty list, resolve fails with the
\* missing-translation error exactly when the key is absent from the catalog
\* of some language of the list, and a failure returns no string
C8_MissingIffAbsent ==
  (Strict /\ languages # <<>>) =>
    /\ (~resolved.ok /\ resolved.error = "message-not-found")
         <=> (\E i \in 1..Len(languages) :
                ~HasKey(languages[i], resolved.key))
    /\ ~resolved.ok => resolved.value = <<>>

\* the languages in the order their catalogs are consulted
LookupOrder == IF languages = <<>> THEN <<Undefined>> ELSE languages

\* C8 amended: resolve fails with the missing-translation error exactly
\* when, in list order, the first language whose lookup gives no non-empty
\* value has a catalog that loads and in which the key is absent or empty;
\* a failure returns no string
C8_MissingTranslation ==
  resolved.op = "localizeMessage" =>
    /\ (~resolved.ok /\ resolved.error = "message-not-found")
         <=> (\E i \in 1..Len(LookupOrder) :
                /\ resources[LookupOrder[i]].exists
                /\ ~HasMessage(LookupOrder[i], resolved.key)
                /\ \A j \in 1..(i - 1) :
                     HasMessage(LookupOrder[j], resolved.key))
    /\ ~resolved.ok => resolved.value = <<>>

\* the second language has the key with an empty value
C8_Witness ==
  /\ resolved.op = "localizeMessage" /\ Len(languages) = 2
  /\ ~resolved.ok /\ resolved.error = "message-not-found"
  /\ HasKey(languages[2], resolved.key)
  /\ resolved.language = languages[2]

Lenient == resolved.op = "generateLiquidConditions"

Placeholder(k) == <<"[MISSING: ", k, "]">>

\* C9 as stated: the lenient resolver never throws and gives every
\* configured language a branch: the placeholder when its catalog is not in
\* the map or lacks the key, its own value otherwise
C9_PlaceholderIffAbsent ==
  (Lenient /\ languages # <<>>) =>
    LET lines == SplitAt(resolved.value, "\n")
        body(l) == IF HasKey(l, resolved.key) THEN MessageOf(l, resolved.key)
                   ELSE Placeholder(resolved.key)
    IN /\ resolved.ok
       /\ Len(lines) = Len(languages) + 1
       /\ IsIf(lines[1], languages[1], body(languages[1]))
       /\ \A i \in 2..Len(languages) :
            IsElsif(lines[i], languages[i], body(languages[i]))

\* C9 amended: the lenient resolver never throws; it emits one branch per
\* language that is a key of the catalog map, in map order (a configured
\* language whose catalog is not in the map gets no branch); the body is the
\* placeholder when the catalog lacks the key or holds an empty value for
\* it, the language's own value otherwise; the else body is the first one's
C9_Lenient ==
  (Lenient /\ i18nCatalogs # <<>>) =>
    LET lines == SplitAt(resolved.value, "\n")
        n == Len(i18nCatalogs)
        code(i) == i18nCatalogs[i].code
        body(l) == IF HasMessage(l, resolved.key)
                   THEN MessageOf(l, resolved.key)
                   ELSE Placeholder(resolved.key)
    IN /\ resolved.ok
       /\ Len(lines) = n + 1
       /\ IsIf(lines[1], code(1), body(code(1)))
       /\ \A i \in 2..n : IsElsif(lines[i], code(i), body(code(i)))
       /\ IsElse(lines[n + 1])
       /\ ElseBody(lines[n + 1]) = body(code(1))

\* the first language lacks the key, the second carries its own value
C9_Witness ==
  /\ Lenient /\ Len(i18nCatalogs) = 2
  /\ ~HasKey(i18nCatalogs[1].code, resolved.key)
  /\ HasMessage(i18nCatalogs[2].code, resolved.key)
  /\ SplitAt(resolved.value, "\n")[2] =
       <<"{% elsif user.user_metadata.language == '", i18nCatalogs[2].code,
         "' %}">> \o MessageOf(i18nCatalogs[2].code, resolved.key)

\* C10: with an empty language list the strict resolver fails with the
\* configuration error, returns no string and fails in no other way
C10_EmptyListIsConfigurationError ==
  (Strict /\ languages = <<>>) =>
    ~resolved.ok /\ resolved.error = "No languages found"

\* C20: a strict resolution leaves the language list and the catalogs as
\* they were, and one that repeats the call before it, same key, same list,
\* same catalogs, ends the same way: the same text, or the same failure
C20_Idempotent ==
  [][(resolved'.op \in {"localizeMessage", "main"}) =>
       /\ languages' = languages
       /\ resources' = resources
       /\ resolved'.again =>
            /\ resolved'.ok = resolved.ok
            /\ resolved'.value = resolved.value
            /\ resolved'.error = resolved.error
            /\ resolved'.language = resolved.language]_vars

\* the second of two resolutions over three languages that returned
C20_Witness ==
  /\ resolved.op = "localizeMessage" /\ resolved.again /\ resolved.ok
  /\ Len(languages) = 3

-----------------------------------------------------------------------------
(* Properties of the generation pipeline *)

\* C21: with fr-FR listed before en-US, 'Bienvenue' in fr-FR and 'Welcome'
\* in en-US, the generated text is if fr-FR: Bienvenue / elsif en-US:
\* Welcome / else: Welcome, the else branch carrying the en-US value
C21_DocumentedExample ==
  (/\ Strict /\ languages = <<"fr-FR", "en-US">>
   /\ HasKey("fr-FR", resolved.key) /\ HasKey("en-US", resolved.key)
   /\ MessageOf("fr-FR", resolved.key) = <<"Bienvenue">>
   /\ MessageOf("en-US", resolved.key) = <<"Welcome">>) =>
    /\ resolved.ok
    /\ resolved.value =
         <<"{% if user.user_metadata.language == '", "fr-FR", "' %}",
           "Bienvenue", "\n",
           "{% elsif user.user_metadata.language == '", "en-US", "' %}",
           "Welcome", "\n",
           "{% else %}", "Welcome", "{% endif %}">>

\* a call from index i to index j: the opening, a quote, a key of one or
\* more pieces none of which is a quote, a quote, the closing; with
\* sameQuote the two quotes are of one kind
IsCall(content, i, j, sameQuote) ==
  /\ j >= i + 4 /\ j <= Len(content)
  /\ content[i] = Open /\ content[j] = Close
  /\ content[i + 1] \in Quotes /\ content[j - 1] \in Quotes
  /\ sameQuote => content[j - 1] = content[i + 1]
  /\ \A k \in (i + 2)..(j - 2) : content[k] \notin Quotes

CallEnd(content, i, sameQuote) ==
  CHOOSE j \in i..Len(content) : IsCall(content, i, j, sameQuote)

HasCall(content, i, sameQuote) ==
  \E j \in i..Len(content) : IsCall(content, i, j, sameQuote)

\* what localizeFunction does when it is given key
Localized(key, throwing) ==
  IF KeyText(key) \in throwing THEN MissingKey(key)
  ELSE <<"t(">> \o key \o <<")">>

\* the text with every call replaced, from left to right, and the rest kept
RECURSIVE ExpectedText(_, _, _, _)
ExpectedText(content, i, throwing, sameQuote) ==
  IF i > Len(content) THEN <<>>
  ELSE IF HasCall(content, i, sameQuote)
       THEN LET j == CallEnd(content, i, sameQuote) IN
            Localized(SubSeq(content, i + 2, j - 2), throwing)
              \o ExpectedText(content, j + 1, throwing, sameQuote)
       ELSE <<content[i]>> \o ExpectedText(content, i + 1, throwing, sameQuote)

\* the keys localizeFunction is called with, in the order of the calls
RECURSIVE ExpectedCalls(_, _, _)
ExpectedCalls(content, i, sameQuote) ==
  IF i > Len(content) THEN <<>>
  ELSE IF HasCall(content, i, sameQuote)
       THEN LET j == CallEnd(content, i, sameQuote) IN
            <<SubSeq(content, i + 2, j - 2)>>
              \o ExpectedCalls(content, j + 1, sameQuote)
       ELSE ExpectedCalls(content, i + 1, sameQuote)

\* C22 as stated: processTemplate does not throw, and its result is the
\* content with every call quoted in one kind of quote replaced, from left
\* to right, by what localizeFunction returns or, where it throws, by
\* [MISSING: key]; all other text is unchanged
C22_ProcessTemplateSameQuote ==
  (rendered.op = "processTemplate") =>
    /\ rendered.ok
    /\ rendered.text = ExpectedText(template, 1, rendered.throwing, TRUE)
    /\ rendered.calls = ExpectedCalls(template, 1, TRUE)

\* C22, amended: the same with a call being the opening, any of the three
\* quotes, a key without quotes, any of the three quotes, the closing
C22_ProcessTemplate ==
  (rendered.op = "processTemplate") =>
    /\ rendered.ok
    /\ rendered.text = ExpectedText(template, 1, rendered.throwing, FALSE)
    /\ rendered.calls = ExpectedCalls(template, 1, FALSE)

\* text, a call whose key makes localizeFunction throw, then a call in
\* another kind of quote that returns
C22_Witness ==
  /\ rendered.op = "processTemplate"
  /\ template = <<"x", Open, "'", "a.b", "'", Close,
                  Open, "\"", "c.d", "\"", Close>>
  /\ rendered.throwing = { "a.b" }
  /\ rendered.ok
  /\ rendered.text = <<"x", "[MISSING: ", "a.b", "]", "t(", "c.d", ")">>
  /\ rendered.calls = << <<"a.b">>, <<"c.d">> >>

\* the template holds a call whose key has no message in some configured
\* language
ReferencesMissingKey ==
  \E key \in CallKeys(template) :
    \E i \in 1..Len(languages) : ~HasMessage(languages[i], KeyText(key))

HasPlaceholder(text) == \E i \in 1..Len(text) : text[i] = "[MISSING: "

\* C23: in the strict pipeline a template that references a key missing in
\* some configured language makes the generation of that template fail,
\* and no text with a [MISSING: ...] placeholder is returned or written
C23_StrictNeverSubstitutes ==
  (rendered.op \in {"readTemplate", "generateTemplates",
                    "writeConfiguration"}) =>
    /\ ReferencesMissingKey /\ rendered.op # "writeConfiguration"
         => ~rendered.ok /\ ~rendered.html.written
    /\ ~HasPlaceholder(rendered.text)
    /\ ~HasPlaceholder(rendered.html.text)
    /\ ~HasPlaceholder(rendered.json.text)

-----------------------------------------------------------------------------
(* Properties of the batch build *)

\* C24: a finished build whose templates were all generated is a failure
\* exactly when the default language, config.languages[0], failed to load;
\* a language that failed is absent from the catalogs of the context
C24_OnlyDefaultLanguageIsFatal ==
  (build.pc = "done" /\ build.templatesOk) =>
    /\ ~build.success <=>
         \E i \in 1..Len(build.failed) : build.failed[i] = buildConfig[1].code
    /\ \A i \in 1..Len(build.failed) :
         \A j \in 1..Len(build.catalogs) : build.catalogs[j] # build.failed[i]

-----------------------------------------------------------------------------
(* Properties of the configuration loader *)

ObjectItems(field) ==
  { i \in 1..Len(field.items) : field.items[i].kind = "object" }

\* what the file holds is no configuration: an array is missing, an entry
\* lacks a required field, two templates have one name, two languages one
\* code
Defective(raw) ==
  \/ raw.kind # "config"
  \/ raw.templates.kind # "array"
  \/ raw.languages.kind # "array"
  \/ \E i \in ObjectItems(raw.templates) :
       LET t == raw.templates.items[i] IN
       t.name = "" \/ t.from = "" \/ t.subjectKey = ""
  \/ \E i \in ObjectItems(raw.languages) :
       LET l == raw.languages.items[i] IN l.code = "" \/ l.name = ""
  \/ \E i, j \in ObjectItems(raw.templates) :
       i # j /\ raw.templates.items[i].name = raw.templates.items[j].name
  \/ \E i, j \in 1..Len(raw.languages.items) :
       /\ i # j
       /\ raw.languages.items[i] = raw.languages.items[j]
       /\ raw.languages.items[i].kind # "null"

\* C25: loadConfiguration returns only configurations that pass
\* validateConfiguration; a load that reads the file fails when the file is
\* missing, is no JSON or holds a defective configuration; every failure
\* is a ConfigurationError and leaves the configuration cache as it was
C25_LoadConfiguration ==
  [][(configLoaded'.op = "loadConfiguration") =>
       /\ configLoaded'.ok =>
            /\ ~validateConfiguration(configLoaded'.config).threw
            /\ validateConfiguration(configLoaded'.config).valid
       /\ ~configLoaded'.ok =>
            /\ configLoaded'.error = "ConfigurationError"
            /\ configCache' = configCache
       /\ (/\ ~configLoaded'.fromCache
           /\ \/ ~configFile.exists
              \/ ~configFile.parses
              \/ Defective(configFile.raw))
            => ~configLoaded'.ok]_vars

\* a load that failed on a file without a languages array, after an earlier
\* load had cached the configuration: the cached entry is still there
C25_Witness ==
  /\ configLoaded.op = "loadConfiguration"
  /\ ~configLoaded.ok
  /\ configLoaded.message = "Configuration validation failed"
  /\ configFile.exists /\ configFile.parses
  /\ configFile.raw.kind = "config"
  /\ configFile.raw.languages = Absent
  /\ configCache.cached
  /\ configCache.mtime < configFile.mtime

-----------------------------------------------------------------------------
(* Properties of the cache store over its history *)

\* C26: under every strategy a get that returns a value is called less
\* than ttl seconds after the most recent set of its key
C26_NoStaleReads ==
  (/\ last.op = "get" /\ last.result.found
   /\ lastSet[last.key].given) =>
    last.at - lastSet[last.key].at < lastSet[last.key].ttl * MsPerSecond

(* C27: set always ends: the eviction loop inside it removes one entry on
   each iteration, so every set that was started has completed. *)
C27_SetAlwaysEnds ==
  last.op = "set" => (last.completed /\ ~hung)

-----------------------------------------------------------------------------
(* Properties of the cache store under interleaved calls *)

(* C28: the background sweep removes the expired entries and subtracts
   their sizes, and whatever gets and sets ran around it, after a sweep the
   size counter is the sum of the sizes of the entries in the map. *)
C28_SweepLeavesCounterAndMapAgreeing ==
  last.op = "cleanup" => currentMemorySize = SumSizes(memoryCache)

\* a get that starts and returns in this step, with no other call between
GetReturns(key) ==
  /\ ops' = ops + 1 /\ inFlight' = inFlight
  /\ last'.op = "get" /\ last'.key = key

(* C29: in the hybrid strategy, once delete(k) or clear() has completed and
   no set(k) has started since, a get(k) returns not-found, even when
   another get(k) was waiting for its disk read while the delete ran. *)
C29_DeletionIsFinal ==
  [][\A k \in Keys :
       (strategy = "hybrid" /\ removed[k] /\ GetReturns(k))
         => ~last'.result.found]_vars

-----------------------------------------------------------------------------
(* Properties of the strict resolver over its lookups *)

(* C30: the strict resolver loads and looks up the catalogs one language at
   a time in list order; when the lookup for a language fails, the catalogs
   consulted are those of the list up to and including that language, and
   no later one. *)
C30_FailFastOrder ==
  (resolved.op \in {"localizeMessage", "main"} /\ languages # <<>>) =>
    LET n == Len(resolved.consulted) IN
    /\ resolved.ok => resolved.consulted = languages \o <<languages[1]>>
    /\ ~resolved.ok =>
         /\ n \in 1..Len(languages)
         /\ resolved.consulted = SubSeq(languages, 1, n)
         /\ resolved.language = languages[n]

\* the lookup fails for the second of three languages
C30_Witness ==
  /\ resolved.op = "localizeMessage" /\ ~resolved.ok
  /\ Len(languages) = 3 /\ Len(resolved.consulted) = 2
  /\ resolved.language = languages[2]
  /\ resources[languages[3]].exists

-----------------------------------------------------------------------------
(* Properties of the lenient resolver and of the batch build *)

(* C31: the lenient resolver called with an empty catalog map fails with a
   configuration error and does not return the empty string. *)
C31_EmptyCatalogMapFails ==
  (Lenient /\ i18nCatalogs = <<>>) =>
    /\ ~resolved.ok
    /\ resolved.error = "ConfigurationError"

\* the priority number config.languages gives to a language code
PriorityOf(code) ==
  LET i == CHOOSE i \in 1..Len(buildConfig) : buildConfig[i].code = code
  IN buildConfig[i].priority

(* C32: in batch generation the catalogs of the context, whose order is the
   order of the generated branches, follow the priority order of the
   enabled languages, lowest number first, whatever their position in the
   configuration array. *)
C32_BranchesFollowPriority ==
  build.pc \in {"templates", "done"} =>
    \A i, j \in 1..Len(build.catalogs) :
      i < j => PriorityOf(build.catalogs[i]) <= PriorityOf(build.catalogs[j])

\* the last loadLanguage of initialize has returned or thrown in this step
InitializeEnds == build.pc = "initialize" /\ build'.pc # "initialize"

\* this.catalogs.keys() of the loader of the build command
AvailableLanguages(cats) == { c \in LangCodes : cats["build"][c] # NoCatalog }

(* C33: initialize(languages) on a new service attempts every listed
   language in order and does not raise, whichever of them fail; when it
   returns the available languages are the listed languages whose load
   succeeded. *)
C33_InitializeAttemptsAll ==
  [][InitializeEnds =>
       /\ build'.pc = "load"
       /\ build'.attempted = [i \in 1..Len(buildConfig) |-> buildConfig[i].code]
       /\ AvailableLanguages(loaderCatalogs')
            = { build'.initialized[i] : i \in 1..Len(build'.initialized) }]_vars

\* the first of two languages failed and the second loaded
C33_Witness ==
  /\ build.pc = "load" /\ build.i = 1 /\ Len(buildConfig) = 2
  /\ build.initialized = <<buildConfig[2].code>>
  /\ AvailableLanguages(loaderCatalogs) = {buildConfig[2].code}

-----------------------------------------------------------------------------
(* Properties of the catalog loader's measures *)

\* r is an integer nearest to 100 * completed / total
NearestPercent(r, completed, total) ==
  /\ 2 * r * total - 200 * completed <= total
  /\ 200 * completed - 2 * r * total <= total

\* C34 as stated: the completeness of a catalog with entries is 100 exactly
\* when every entry has a non-empty trimmed value
C34_HundredIffAllFilled ==
  (completeness.done /\ TotalEntries(catalogEntries) > 0) =>
    (completeness.value = 100
       <=> CompletedEntries(catalogEntries) = TotalEntries(catalogEntries))

(* C34 amended: the completeness is 0 for a catalog without entries and
   otherwise an integer nearest to the percentage of the entries whose
   trimmed value is non-empty; it lies in 0..100, and it is 100 exactly
   when the catalog has entries and at least 99.5 percent of them are
   filled, so whenever all of them are. *)
C34_Completeness ==
  completeness.done =>
    LET total == TotalEntries(catalogEntries)
        completed == CompletedEntries(catalogEntries)
    IN /\ completeness.value \in 0..100
       /\ total = 0 => completeness.value = 0
       /\ total > 0 => NearestPercent(completeness.value, completed, total)
       /\ completeness.value = 100
            <=> (total > 0 /\ 200 * completed >= 199 * total)
       /\ (total > 0 /\ completed = total) => completeness.value = 100

\* one value of 200 is blank and the completeness is 100
C34_Witness ==
  /\ completeness.done /\ completeness.value = 100
  /\ TotalEntries(catalogEntries) = 200
  /\ catalogEntries[" "] = 1 /\ catalogEntries[""] = 0

\* the key-to-value entries a well-formed resource can hold
ResourceEntries == { InitialFile.translations } \cup Translations

(* C35: a catalog that loadLanguage serves from the cache has the
   key-to-value entries of the resource it was built from, under every
   strategy. *)
C35_CachedCatalogKeepsEntries ==
  (loaded.op = "loadLanguage" /\ loaded.ok /\ loaded.cacheHit) =>
    loaded.catalog[2].entries.pairs \in ResourceEntries

\* the key is among the entries of the loaded catalog of a language
HasEntry(language, key) ==
  /\ language \in LangCodes
  /\ loaderCatalogs["build"][language] # NoCatalog
  /\ key \in DOMAIN loaderCatalogs["build"][language][2].entries.pairs

\* the value the loaded catalog of a language has for the key
EntryValue(language, key) ==
  loaderCatalogs["build"][language][2].entries.pairs[key]

\* resolve is called in this step: no load changes the catalogs
Resolves ==
  /\ i18nResolved'.op = "resolve"
  /\ UNCHANGED <<cacheVars, loaderVars>>

(* C36: resolve(key, context) fails with LanguageNotFound when the current
   language has no loaded catalog; otherwise it returns the current
   language's value when the key is present; otherwise the fallback
   language's value when the fallback differs from the current language,
   is loaded and has the key; otherwise it fails with TranslationMissing.
   The value never comes from any other language. *)
C36_Resolve ==
  [][Resolves =>
       LET r == i18nResolved'
           fb == UsableFallback(r.fallback, r.current)
       IN IF loaderCatalogs["build"][r.current] = NoCatalog
          THEN ~r.ok /\ r.error = "LanguageNotFound"
          ELSE IF HasEntry(r.current, r.key)
          THEN r.ok /\ r.from = r.current
                    /\ r.value = EntryValue(r.current, r.key)
          ELSE IF HasEntry(fb, r.key)
          THEN r.ok /\ r.from = fb /\ r.value = EntryValue(fb, r.key)
          ELSE ~r.ok /\ r.error = "TranslationMissing"]_vars

-----------------------------------------------------------------------------
(* Properties of the worker pool *)

\* the submitted tasks that are executing
Executing == { t \in TaskIds : tasks[t].running }

(* C37: at every instant at most maxWorkers of the submitted tasks are
   executing, whatever the order of submissions, ends and timeouts. *)
C37_AtMostMaxWorkersExecuting == Cardinality(Executing) <= maxWorkers

\* the workers that are free or can still be created
FreeWorkers ==
  Cardinality({ i \in 1..Len(workers) : ~workers[i].busy })
    + (maxWorkers - Len(workers))

(* C38: every task submitted through execute is started and its promise
   settles, with the task's result, its error or the timeout; a task waits
   in the queue while a worker is free only until the scheduled
   processQueue runs; the tasks are started in submission order. *)
C38_EverySubmittedTaskSettles ==
  /\ \A t \in TaskIds :
       (tasks[t].state = "queued") ~>
         (/\ tasks[t].state = "settled"
          /\ tasks[t].outcome \in {"result", "error", "Task timeout"}
          /\ \E i \in 1..Len(started) : started[i] = t)
  /\ [](\A t \in TaskIds :
          tasks[t].state \in {"racing", "settled"} =>
            \E i \in 1..Len(started) : started[i] = t)
  /\ []((taskQueue # <<>> /\ FreeWorkers > 0) => immediates > 0)
  /\ [](started = [i \in 1..Len(started) |-> i])

\* three tasks on one worker: all have settled, one of them by its timeout
C38_Witness ==
  /\ maxWorkers = 1
  /\ \A t \in TaskIds : tasks[t].state = "settled"
  /\ \E t \in TaskIds : tasks[t].outcome = "Task timeout"
  /\ started = <<1, 2, 3>>

====
